---- MODULE Spec2Model ----
(***************************************************************************)
(* Model of the Ledger-backed CryptoNote helper (src/src/LedgerNote.ts)    *)
(* and of the device client it owns (src/dist/LedgerDevice.js).            *)
(*                                                                         *)
(* The host is a single-threaded JavaScript program: an async method runs  *)
(* atomically from one await to the next.  Each action below is one such   *)
(* run: the continuation of a call after the promise it awaits settles.    *)
(* A request is handed to the transport by LedgerDevice.exchange in the    *)
(* run that calls it; the reply (OK body, refusal status, or a transport   *)
(* failure) is chosen by the environment when the continuation runs.       *)
(***************************************************************************)
EXTENDS Integers, Sequences, FiniteSets, TLC

(***************************************************************************)
(* Bounds of the model.                                                    *)
(***************************************************************************)
MaxCalls == 2
MaxInputs == 2
MaxOutputs == 2
MaxChunk == 2
MaxScan == 2
MaxOutputIndex == 1
\* Key images are compared as big integers: the model takes 1..MaxKeyImage.
MaxKeyImage == 2
\* config.maximumOutputAmount and config.maximumLedgerTransactionSize are
\* read from config.json; the model scales them down.
MaximumOutputAmount == 2
MaximumLedgerTransactionSize == 2

(***************************************************************************)
(* Program constants.                                                      *)
(***************************************************************************)
RingSize == 4
MaxTxCount == 90
INACTIVE == 0
READY == 1
RECEIVING_INPUTS == 2
INPUTS_RECEIVED == 3
RECEIVING_OUTPUTS == 4
OUTPUTS_RECEIVED == 5
PREFIX_READY == 6
COMPLETE == 7

TransactionState == INACTIVE..COMPLETE

Calls == 1..MaxCalls

\* What the environment makes of one exchange: status 0x9000, another
\* status word, or a rejection by the transport itself.
Replies == {"ok", "refused", "transport"}

Hashes == {"h1", "h2"}

Last(s) == s[Len(s)]

RECURSIVE Repeat(_, _)
Repeat(x, n) == IF n <= 0 THEN <<>> ELSE <<x>> \o Repeat(x, n - 1)

RECURSIVE SumSeq(_)
SumSeq(s) == IF s = <<>> THEN 0 ELSE Head(s) + SumSeq(Tail(s))

RECURSIVE Without(_, _)
Without(s, x) ==
    IF s = <<>> THEN <<>>
    ELSE IF Head(s) = x THEN Without(Tail(s), x)
    ELSE <<Head(s)>> \o Without(Tail(s), x)

Count(s, x) == Cardinality({i \in 1..Len(s) : s[i] = x})

SeqsUpTo(S, n) == UNION {[1..k -> S] : k \in 0..n}

RECURSIVE InsertBy(_, _, _, _)
\* x is put behind the members of the sorted s that do not come after it.
InsertBy(s, x, field, sign) ==
    IF s = <<>> THEN <<x>>
    ELSE IF sign * x[field] < sign * Head(s)[field] THEN <<x>> \o s
    ELSE <<Head(s)>> \o InsertBy(Tail(s), x, field, sign)

RECURSIVE SortBy(_, _, _)
\* Array.prototype.sort with a comparator that compares one field of the
\* members, ascending (sign 1) or descending (sign -1): a stable sort.
SortBy(s, field, sign) ==
    IF s = <<>> THEN <<>>
    ELSE InsertBy(SortBy(SubSeq(s, 1, Len(s) - 1), field, sign), s[Len(s)], field, sign)

VARIABLES
    todo,       \* todo[c]: the operation caller c invokes, with its arguments
    call,       \* call[c]: the state of call c (position, locals, history)
    m_fetched,  \* LedgerNote.m_fetched, the ready flag
    m_spend,    \* LedgerNote.m_spend: the KeyPair object it refers to
    m_view,     \* LedgerNote.m_view: the KeyPair object it refers to
    m_address,  \* LedgerNote.m_address: the Address object it refers to
    viewPriv,   \* viewPriv[o]: the private key held by view KeyPair object o
    scan,       \* the scanTransactionOutputs call and its Promise.all
    exch,       \* one LedgerDevice call, byte by byte: request, events, transport, outcome
    fn          \* one call of a method that does no I/O: its arguments and what it returned

helper == <<m_fetched, m_spend, m_view, m_address, viewPriv, scan>>

vars == <<todo, call, m_fetched, m_spend, m_view, m_address, viewPriv, scan, exch, fn>>

\* No LedgerDevice call is followed byte by byte; no method is applied.
NoExchange == [pc |-> "none"]
NoApplication == [pc |-> "none"]
OnlyCalls == exch = NoExchange /\ fn = NoApplication

NoSign == [hash |-> "none", size |-> 0]
NoTx == [hash |-> "none", size |-> 0]
NoResult == [kind |-> "none", err |-> "none"]

\* Keys.  The device holds one wallet; a derived key is the tuple of what it
\* was derived from, and <<>> stands for a derived key that is not there.
NoKey == "none"
SpendPublic == "S"
ViewPublic == "V"
ViewPrivate == "v"
TxPublic == "T"
NoDerived == <<>>

\* The crypto provider: generate_key_derivation and derive_public_key.
GenerateKeyDerivation(pub, priv) == <<"D", pub, priv>>
DerivePublicKey(derivation, index, pub) == <<"P", derivation, index, pub>>

\* KeyPair objects: object 0 is the empty `new KeyPair()` of the constructor,
\* object c is the pair built from call c's PUBLIC_KEYS response.
Objects == 0..MaxCalls
SpendPublicOf(o) == IF o = 0 THEN NoKey ELSE SpendPublic
ViewPublicOf(o) == IF o = 0 THEN NoKey ELSE ViewPublic

\* The one-time transaction keys: the body of a RANDOM_KEY_PAIR response is
\* two hashes, the public key and then the private key.  The device makes a
\* fresh pair for every request: the pair it returns to call c.
RandomKeyPair(c) == [public |-> <<"R", c>>, private |-> <<"r", c>>]
NoKeyPair == [publicKey |-> NoKey, privateKey |-> NoKey]

\* Destinations: decoded addresses.  A is a plain address, B and C are
\* integrated addresses that embed the payment ids p1 and p2.
Destinations == {"A", "B", "C"}
PaymentIds == {"p1", "p2"}
PaymentIdOf(destination) ==
    CASE destination = "B" -> "p1"
      [] destination = "C" -> "p2"
      [] OTHER -> "none"
ViewPublicKeyOf(destination) == <<"view", destination>>
SpendPublicKeyOf(destination) == <<"spend", destination>>

NoInput == [publicEphemeral |-> NoDerived, privateEphemeral |-> "unset"]
NoOutput == [index |-> 0, key |-> NoDerived, input |-> NoInput, keyImage |-> NoKey]

IdleCall ==
    [pc |-> "idle",        \* the await the call is suspended at
     wait |-> "none",      \* the command whose reply it awaits from the transport
     log |-> <<>>,         \* history: the commands this call handed to the transport
     inTry |-> FALSE,      \* createTransaction has entered its try block
     expect |-> INACTIVE,  \* the state the pending TX_STATE read must return
     seen |-> <<>>,        \* history: the states the TX_STATE reads returned
     idx |-> 0,            \* loop index of the input / output being loaded
     sign |-> NoSign,      \* the result of signTransaction
     buf |-> 0,            \* retrieveTransaction: response.length
     tx |-> NoTx,          \* the transaction parsed from the dumped bytes
     failure |-> "none",   \* the exception in flight while finally runs
     refused |-> "none",   \* history: the build command the device refused
     tx_keys |-> NoKeyPair,        \* the result of getRandomKeyPair
     transactionInputs |-> <<>>,   \* the prepared inputs, as ordered for loading
     outputs |-> <<>>,             \* the outputs array once prepareTransactionOutputs sorted it
     transactionOutputs |-> <<>>,  \* the prepared outputs: amount and one-time key
     loaded |-> <<>>,      \* history: what each TX_LOAD_INPUT / TX_LOAD_OUTPUT carried
     start |-> <<>>,       \* history: what the TX_START request carried
     resetReply |-> "none",\* history: the reply to the cleanup TX_RESET
     fk |-> "none",        \* the method that awaits fetchKeys
     setTarget |-> 0,      \* the KeyPair object setPrivateKey was called on
     privRead |-> NoKey,   \* this.m_view.privateKey as passed to the crypto call
     spendRead |-> NoKey,  \* this.m_spend.publicKey as passed to the crypto call
     derivation |-> NoDerived, \* the awaited key derivation
     out |-> NoOutput,     \* the output object passed to isOurTransactionOutput
     result |-> NoResult]  \* how the call's promise settled

NoArgs == [op |-> "none"]

(***************************************************************************)
(* LedgerDevice.exchange: the request is handed to the transport and the   *)
(* caller is suspended until the reply.                                    *)
(***************************************************************************)
Exchange(r, cmd, pc) ==
    [r EXCEPT !.wait = cmd, !.log = Append(@, cmd), !.pc = pc]

\* exchange's continuation: a status other than OK, or a transport failure,
\* is thrown to the caller.
ReplyError(rep) ==
    IF rep = "refused" THEN "DeviceProtocolError" ELSE "TransportError"

Settle(r, kind, err) ==
    [r EXCEPT !.pc = "done", !.wait = "none",
              !.result = [kind |-> kind, err |-> err]]

(***************************************************************************)
(* createTransaction                                                       *)
(***************************************************************************)

\* feeAmount after `if (typeof feeAmount === 'undefined') feeAmount = ...`:
\* an absent fee (<<>>) is the configured default network fee.
FeeAmount(a) ==
    IF a.feeAmount = <<>> THEN a.config.defaultNetworkFee ELSE a.feeAmount[1]

\* const feePerByte = config.activateFeePerByteTransactions || ... || false
FeePerByte(a) == a.config.activateFeePerByteTransactions

\* neededMoney.greater(foundMoney)
InsufficientFundsFixedFeeOnly(a) ==
    ~FeePerByte(a) /\ SumSeq(a.outputs) > SumSeq(a.inputs)

InsufficientFunds(a) == SumSeq(a.outputs) > SumSeq(a.inputs)

\* !feePerByte && feeAmount && change.lesser(feeAmount)
FeeExceedsChangeInAnyMode(a) ==
    /\ FeeAmount(a) # 0
    /\ SumSeq(a.inputs) - SumSeq(a.outputs) < FeeAmount(a)

FeeExceedsChange(a) ==
    /\ ~FeePerByte(a)
    /\ FeeAmount(a) # 0
    /\ SumSeq(a.inputs) - SumSeq(a.outputs) < FeeAmount(a)

RECURSIVE OutputsErrorIgnoresMaximum(_, _, _)
RECURSIVE OutputsError(_, _, _)
\* for (const output of outputs): the checks of output i and of those after
\* it, integratedPaymentId being the payment id found in the outputs before.
OutputsErrorIgnoresMaximum(a, i, integratedPaymentId) ==
    IF i > Len(a.outputs) THEN "none"
    ELSE IF a.outputs[i] <= 0 THEN "RangeError"
    ELSE IF PaymentIdOf(a.destinations[i]) = "none"
        THEN OutputsErrorIgnoresMaximum(a, i + 1, integratedPaymentId)
    ELSE IF integratedPaymentId = "none"
        THEN OutputsErrorIgnoresMaximum(a, i + 1, PaymentIdOf(a.destinations[i]))
    ELSE IF integratedPaymentId # PaymentIdOf(a.destinations[i])
        THEN "DifferingIntegratedAddresses"
    ELSE OutputsErrorIgnoresMaximum(a, i + 1, integratedPaymentId)

OutputsError(a, i, integratedPaymentId) ==
    IF i > Len(a.outputs) THEN "none"
    ELSE IF a.outputs[i] <= 0 THEN "RangeError"
    ELSE IF a.outputs[i] > MaximumOutputAmount THEN "RangeError"
    ELSE IF PaymentIdOf(a.destinations[i]) = "none"
        THEN OutputsError(a, i + 1, integratedPaymentId)
    ELSE IF integratedPaymentId = "none"
        THEN OutputsError(a, i + 1, PaymentIdOf(a.destinations[i]))
    ELSE IF integratedPaymentId # PaymentIdOf(a.destinations[i])
        THEN "DifferingIntegratedAddresses"
    ELSE OutputsError(a, i + 1, integratedPaymentId)

\* integratedPaymentId after the loop: the first payment id embedded in a
\* destination.
IntegratedPaymentId(a) ==
    IF \A i \in 1..Len(a.destinations) : PaymentIdOf(a.destinations[i]) = "none"
    THEN "none"
    ELSE PaymentIdOf(a.destinations[
            CHOOSE i \in 1..Len(a.destinations) :
                /\ PaymentIdOf(a.destinations[i]) # "none"
                /\ \A j \in 1..(i - 1) : PaymentIdOf(a.destinations[j]) = "none"])

\* `paymentId` as a condition: an absent paymentId ("none") and an empty one
\* ("") are falsy.
Given(paymentId) == paymentId \notin {"none", ""}

\* The checks createTransaction makes before any device I/O, in its order.
ValidationErrorIgnoresPaymentIds(a) ==
    IF a.extraData THEN "NotSupported"
    ELSE IF Len(a.pools) # Len(a.inputs) /\ a.mixin # 0 THEN "RandomOutputSets"
    ELSE IF \E i \in 1..Len(a.pools) : Len(a.pools[i]) < a.mixin THEN "RandomOutputs"
    ELSE IF \E i \in 1..Len(a.outputs) : a.outputs[i] <= 0 THEN "RangeError"
    ELSE IF \E i \in 1..Len(a.outputs) : a.outputs[i] > MaximumOutputAmount
        THEN "RangeError"
    ELSE IF \E i \in 1..Len(a.inputs) : a.inputs[i] <= 0 THEN "RangeError"
    ELSE IF InsufficientFunds(a) THEN "Insufficient"
    ELSE IF FeeExceedsChange(a) THEN "NotAllSpent"
    ELSE "none"

ValidationError(a) ==
    IF a.extraData THEN "NotSupported"
    ELSE IF Len(a.pools) # Len(a.inputs) /\ a.mixin # 0 THEN "RandomOutputSets"
    ELSE IF \E i \in 1..Len(a.pools) : Len(a.pools[i]) < a.mixin THEN "RandomOutputs"
    ELSE IF OutputsError(a, 1, "none") # "none" THEN OutputsError(a, 1, "none")
    ELSE IF /\ IntegratedPaymentId(a) # "none"
            /\ Given(a.paymentId)
            /\ IntegratedPaymentId(a) # a.paymentId
        THEN "PaymentIdMismatch"
    ELSE IF \E i \in 1..Len(a.inputs) : a.inputs[i] <= 0 THEN "RangeError"
    ELSE IF InsufficientFunds(a) THEN "Insufficient"
    ELSE IF FeeExceedsChange(a) THEN "NotAllSpent"
    ELSE "none"

\* The literal the number of inputs of a zero-fee (fusion) transaction is
\* compared with.
FusionMinInputs == 12

\* The fusion checks made when feeAmount === 0: the number of inputs, and the
\* ratio of inputs to outputs (a division by no outputs gives Infinity).
FusionErrorIgnoresRatio(a, r) ==
    IF FeeAmount(a) # 0 THEN "none"
    ELSE IF Len(r.transactionInputs) < FusionMinInputs THEN "FusionInputs"
    ELSE "none"

FusionError(a, r) ==
    IF FeeAmount(a) # 0 THEN "none"
    ELSE IF Len(r.transactionInputs) < FusionMinInputs THEN "FusionInputs"
    ELSE IF /\ Len(r.transactionOutputs) > 0
            /\ Len(r.transactionInputs)
                    < a.config.fusionMinInOutCountRatio * Len(r.transactionOutputs)
        THEN "FusionRatio"
    ELSE "none"

\* The checks between prepareTransactionOutputs and the try block.
PreparedError(a, r) ==
    IF Len(r.transactionOutputs) > a.config.maximumOutputsPerTransaction
    THEN "RangeError"
    ELSE FusionError(a, r)

\* The finally block: resetTransaction() is awaited, then the pending
\* exception (if any) continues to propagate.
FinallySkipsResetOnError(r, err) ==
    IF err = "none"
    THEN Exchange([r EXCEPT !.failure = err], "TX_RESET", "reset")
    ELSE Settle(r, "error", err)

Finally(r, err) ==
    Exchange([r EXCEPT !.failure = err], "TX_RESET", "reset")

\* An exception thrown between the first device request and the try block:
\* it reaches the caller as it is.
BeforeTryResets(r, err) ==
    Exchange([r EXCEPT !.failure = err], "TX_RESET", "reset")

BeforeTry(r, err) == Settle(r, "error", err)

\* transactionState() is called and compared with the expected state.
ReadState(r, expected) ==
    [Exchange(r, "TX_STATE", "state") EXCEPT !.expect = expected]

\* prepareTransactionInputs, as createTransaction calls it before its first
\* request to the device.
RECURSIVE MixWithAnyOutput(_, _, _, _)
RECURSIVE MixWith(_, _, _, _)
\* The variant that does not skip a fake output with the real output's
\* globalIndex.
MixWithAnyOutput(mixedOutputs, fakeOutputs, realOutput, mixin) ==
    IF fakeOutputs = <<>> THEN mixedOutputs
    ELSE MixWithAnyOutput(
            IF Len(mixedOutputs) = mixin
            THEN mixedOutputs
            ELSE Append(mixedOutputs, [key |-> Head(fakeOutputs).key,
                                       index |-> Head(fakeOutputs).globalIndex]),
            Tail(fakeOutputs), realOutput, mixin)

\* for (const fakeOutput of fakeOutputs): a fake output is pushed unless the
\* ring has `mixin` members already or it has the real output's globalIndex.
MixWith(mixedOutputs, fakeOutputs, realOutput, mixin) ==
    IF fakeOutputs = <<>> THEN mixedOutputs
    ELSE MixWith(
            IF Len(mixedOutputs) = mixin
                \/ Head(fakeOutputs).globalIndex = realOutput.globalIndex
            THEN mixedOutputs
            ELSE Append(mixedOutputs, [key |-> Head(fakeOutputs).key,
                                       index |-> Head(fakeOutputs).globalIndex]),
            Tail(fakeOutputs), realOutput, mixin)

\* The position of the last ring member with the real output's globalIndex.
RealOutputIndex(mixedOutputs, realOutput) ==
    LET at == {j \in 1..Len(mixedOutputs) :
                    mixedOutputs[j].index = realOutput.globalIndex}
    IN  IF at = {} THEN 0 ELSE (CHOOSE j \in at : \A k \in at : k <= j) - 1

NoPrepared == [err |-> "none", realOutputIndex |-> 0, outputs |-> <<>>]

\* The body of the loop over the inputs, for one of them, ring unsorted.
PrepareInputUnsorted(realOutput, fakeOutputs, mixin) ==
    LET mixed == IF mixin # 0
                 THEN MixWith(<<>>, SortBy(fakeOutputs, "globalIndex", 1), realOutput, mixin)
                 ELSE <<>>
        ring == Append(mixed, [key |-> realOutput.key, index |-> realOutput.globalIndex])
    IN  IF mixin # 0 /\ Len(mixed) < mixin
        THEN [NoPrepared EXCEPT !.err = "CannotMix"]
        ELSE [NoPrepared EXCEPT !.outputs = ring,
                                !.realOutputIndex = RealOutputIndex(ring, realOutput)]

\* The body of the loop over the inputs, for one of them.
PrepareInput(realOutput, fakeOutputs, mixin) ==
    LET mixed == IF mixin # 0
                 THEN MixWith(<<>>, SortBy(fakeOutputs, "globalIndex", 1), realOutput, mixin)
                 ELSE <<>>
        ring == SortBy(Append(mixed, [key |-> realOutput.key,
                                      index |-> realOutput.globalIndex]), "index", 1)
    IN  IF mixin # 0 /\ Len(mixed) < mixin
        THEN [NoPrepared EXCEPT !.err = "CannotMix"]
        ELSE [NoPrepared EXCEPT !.outputs = ring,
                                !.realOutputIndex = RealOutputIndex(ring, realOutput)]

\* prepareTransactionInputs: the checks of the pools, then every input in
\* turn; the first input that cannot be prepared ends the call.
prepareTransactionInputs(inputs, randomOutputs, mixin) ==
    IF Len(inputs) # Len(randomOutputs) /\ mixin # 0
    THEN [err |-> "NotEnoughSets", inputs |-> <<>>]
    ELSE IF \E i \in 1..Len(randomOutputs) : Len(randomOutputs[i]) < mixin
        THEN [err |-> "NotEnoughOutputs", inputs |-> <<>>]
    ELSE LET prepared == [i \in 1..Len(inputs) |->
                PrepareInput(inputs[i],
                             IF mixin # 0 THEN randomOutputs[i] ELSE <<>>, mixin)]
         IN  IF \E i \in 1..Len(inputs) : prepared[i].err # "none"
             THEN [err |-> "CannotMix", inputs |-> <<>>]
             ELSE [err |-> "none", inputs |-> prepared]

\* The random outputs of a pool: the p-th has a key of its own.
PoolOf(indexes) ==
    [p \in 1..Len(indexes) |-> [key |-> <<"fake", p>>, globalIndex |-> indexes[p]]]

\* `paymentId || undefined`, the payment id createTransaction passes to
\* startTransaction.
StartPaymentIdOrIntegrated(a) ==
    IF Given(a.paymentId) THEN a.paymentId ELSE IntegratedPaymentId(a)

StartPaymentId(a) == IF Given(a.paymentId) THEN a.paymentId ELSE "none"

\* What startTransaction writes after the unlock time: the counts, the
\* transaction public key, and 1 and the payment id or 0.
StartTransactionRequest(input_count, output_count, tx_public_key, payment_id) ==
    [input_count |-> input_count, output_count |-> output_count,
     tx_public_key |-> tx_public_key,
     hasPid |-> IF payment_id # "none" THEN 1 ELSE 0,
     payment_id |-> payment_id]

\* startTransaction's checks of its arguments.
StartTransactionError(a) ==
    IF Len(a.inputs) > MaxTxCount \/ Len(a.inputs) < 0 THEN "InvalidArgument"
    ELSE IF Len(a.outputs) > MaxTxCount \/ Len(a.outputs) < 0 THEN "InvalidArgument"
    ELSE IF a.paymentId = "malformed" THEN "InvalidArgument"
    ELSE "none"

\* The inputs passed to createTransaction, as prepareTransactionInputs looks
\* at them when it builds the rings.
RealOutputsOf(a) ==
    [i \in 1..Len(a.inputs) |-> [key |-> "real", globalIndex |-> a.globalIndexes[i]]]

\* prepareTransactionInputs(inputs, randomOutputs, mixin) as createTransaction
\* calls it.
PreparedInputs(a) == prepareTransactionInputs(RealOutputsOf(a), a.pools, a.mixin)

\* What prepareTransactionInputs returns to createTransaction: one prepared
\* input per input, in the order of the inputs, with the input's amount, key
\* image, ring and realOutputIndex.
TransactionInputsOf(a) ==
    LET prepared == PreparedInputs(a).inputs
    IN  [i \in 1..Len(a.inputs) |->
            [amount |-> a.inputs[i], keyImage |-> a.keyImages[i],
             outputs |-> prepared[i].outputs,
             realOutputIndex |-> prepared[i].realOutputIndex]]

\* transactionInputs.sort(...): by key image as a big integer, the comparison
\* negated.
SortTransactionInputsAscending(transactionInputs) ==
    SortBy(transactionInputs, "keyImage", 1)

SortTransactionInputs(transactionInputs) ==
    SortBy(transactionInputs, "keyImage", -1)

\* The KeyPair createTransaction gets from getRandomKeyPair: the public and
\* the private key of the response.
getRandomKeyPair(response) ==
    [publicKey |-> response.public, privateKey |-> response.private]

\* The outputs array passed to createTransaction.
OutputsOf(a) ==
    [i \in 1..Len(a.outputs) |->
        [amount |-> a.outputs[i], destination |-> a.destinations[i]]]

\* prepareOutput: the one-time key of an output.
prepareOutput(destination, amount, index, privateKey) ==
    [amount |-> amount,
     key |-> DerivePublicKey(
                GenerateKeyDerivation(ViewPublicKeyOf(destination), privateKey),
                index, SpendPublicKeyOf(destination))]

\* prepareTransactionOutputs: the outputs array is sorted in place, ascending
\* by amount, and output i (counted from 0) of the sorted array is prepared
\* with index i.
prepareTransactionOutputsUnsorted(transactionKeys, outputs) ==
    [err |-> IF \E i \in 1..Len(outputs) : outputs[i].amount <= 0
             THEN "RangeError" ELSE "none",
     sorted |-> outputs,
     outputs |-> [i \in 1..Len(outputs) |->
                    prepareOutput(outputs[i].destination, outputs[i].amount,
                                  i - 1, transactionKeys.privateKey)]]

prepareTransactionOutputs(transactionKeys, outputs) ==
    LET sorted == SortBy(outputs, "amount", 1)
    IN  [err |-> IF \E i \in 1..Len(sorted) : sorted[i].amount <= 0
                 THEN "RangeError" ELSE "none",
         sorted |-> sorted,
         outputs |-> [i \in 1..Len(sorted) |->
                        prepareOutput(sorted[i].destination, sorted[i].amount,
                                      i - 1, transactionKeys.privateKey)]]

\* The variant that does not count the ring keys and offsets.
LoadInputErrorAnyRing(r, a, i) ==
    IF r.transactionInputs[i].amount > MaximumOutputAmount
        \/ r.transactionInputs[i].amount < 0 THEN "InvalidArgument"
    ELSE "none"

\* loadTransactionInput's checks: the amount, four ring keys and offsets, and
\* the position of the real output among them.
LoadInputError(r, a, i) ==
    IF r.transactionInputs[i].amount > MaximumOutputAmount
        \/ r.transactionInputs[i].amount < 0 THEN "InvalidArgument"
    ELSE IF Len(r.transactionInputs[i].outputs) # RingSize THEN "InvalidArgument"
    ELSE IF r.transactionInputs[i].realOutputIndex > RingSize - 1
        \/ r.transactionInputs[i].realOutputIndex < 0 THEN "InvalidArgument"
    ELSE "none"

\* loadTransactionOutput's check of the amount.
LoadOutputError(r, i) ==
    IF r.transactionOutputs[i].amount < 0
        \/ r.transactionOutputs[i].amount > MaximumOutputAmount THEN "InvalidArgument"
    ELSE "none"

\* The request of loadTransactionInput / loadTransactionOutput for a member
\* of transactionInputs / transactionOutputs.outputs.
Load(r, cmd, what, i) ==
    [Exchange(r, cmd, "cmd") EXCEPT
        !.idx = i,
        !.loaded = Append(@, [command |-> cmd, what |-> what])]

\* for (const input of transactionInputs) ...; then the INPUTS_RECEIVED read.
LoadInputSkipsLast(r, a, i) ==
    IF i >= Len(r.transactionInputs) THEN ReadState(r, INPUTS_RECEIVED)
    ELSE IF LoadInputError(r, a, i) # "none" THEN Finally(r, LoadInputError(r, a, i))
    ELSE Load(r, "TX_LOAD_INPUT", r.transactionInputs[i], i)

LoadInput(r, a, i) ==
    IF i > Len(r.transactionInputs) THEN ReadState(r, INPUTS_RECEIVED)
    ELSE IF LoadInputError(r, a, i) # "none" THEN Finally(r, LoadInputError(r, a, i))
    ELSE Load(r, "TX_LOAD_INPUT", r.transactionInputs[i], i)

\* for (const output of transactionOutputs.outputs) ...; then the read.
LoadOutput(r, a, i) ==
    IF i > Len(r.transactionOutputs) THEN ReadState(r, OUTPUTS_RECEIVED)
    ELSE IF LoadOutputError(r, i) # "none" THEN Finally(r, LoadOutputError(r, i))
    ELSE Load(r, "TX_LOAD_OUTPUT", r.transactionOutputs[i], i)

\* retrieveTransaction's loop body: TX_DUMP at offset response.length (the
\* loop is entered with response.length = 0 < maximumLedgerTransactionSize).
Dump(r) == Exchange(r, "TX_DUMP", "dump")

\* The state createTransaction expects after a command it awaited.
StateAfter(cmd) ==
    CASE cmd = "TX_START" -> READY
      [] cmd = "TX_START_INPUT_LOAD" -> RECEIVING_INPUTS
      [] cmd = "TX_START_OUTPUT_LOAD" -> RECEIVING_OUTPUTS
      [] cmd = "TX_FINALIZE_TX_PREFIX" -> PREFIX_READY
      [] cmd = "TX_SIGN" -> COMPLETE
      [] OTHER -> INACTIVE

\* What createTransaction does once a build command succeeded.
AfterCommand(r, a) ==
    CASE r.wait = "TX_LOAD_INPUT" -> LoadInput(r, a, r.idx + 1)
      [] r.wait = "TX_LOAD_OUTPUT" -> LoadOutput(r, a, r.idx + 1)
      [] OTHER -> ReadState(r, StateAfter(r.wait))

\* What createTransaction does once a TX_STATE read returned the expected state.
AfterState(r, a) ==
    CASE r.expect = READY -> Exchange(r, "TX_START_INPUT_LOAD", "cmd")
      [] r.expect = RECEIVING_INPUTS -> LoadInput(r, a, 1)
      [] r.expect = INPUTS_RECEIVED -> Exchange(r, "TX_START_OUTPUT_LOAD", "cmd")
      [] r.expect = RECEIVING_OUTPUTS -> LoadOutput(r, a, 1)
      [] r.expect = OUTPUTS_RECEIVED -> Exchange(r, "TX_FINALIZE_TX_PREFIX", "cmd")
      [] r.expect = PREFIX_READY -> Exchange(r, "TX_SIGN", "cmd")
      [] OTHER -> Dump(r)

\* The comparison of a TX_STATE read with the state expected.
StateMismatchIgnored(r, a, s) ==
    AfterState([r EXCEPT !.seen = Append(@, s)], a)

CheckState(r, a, s) ==
    IF s # r.expect
    THEN Finally([r EXCEPT !.seen = Append(@, s)], "DeviceStateError")
    ELSE AfterState([r EXCEPT !.seen = Append(@, s)], a)

\* The checks of the retrieved transaction against the result of TX_SIGN.
VerifyHashOnly(r, parsed) ==
    IF parsed = NoTx THEN Finally(r, "ParseError")
    ELSE IF parsed.hash # r.sign.hash
        THEN Finally([r EXCEPT !.tx = parsed], "HashMismatch")
    ELSE Finally([r EXCEPT !.tx = parsed], "none")

Verify(r, parsed) ==
    IF parsed = NoTx THEN Finally(r, "ParseError")
    ELSE IF parsed.hash # r.sign.hash
        THEN Finally([r EXCEPT !.tx = parsed], "HashMismatch")
    ELSE IF parsed.size # r.sign.size
        THEN Finally([r EXCEPT !.tx = parsed], "SizeMismatch")
    ELSE Finally([r EXCEPT !.tx = parsed], "none")

\* Transaction.from(bytes): the decoder fails, or yields a transaction whose
\* size is the number of bytes and whose hash the bytes determine.
ParsedFrom(len) == {NoTx} \cup [hash : Hashes, size : {len}]

\* A phase command failed: the exception reaches the finally block.
CommandFailedSignIgnored(r, rep) ==
    IF r.wait = "TX_SIGN" /\ rep = "refused"
    THEN ReadState([r EXCEPT !.refused = r.wait], COMPLETE)
    ELSE Finally([r EXCEPT !.refused = IF rep = "refused" THEN r.wait ELSE @],
                 ReplyError(rep))

CommandFailed(r, rep) ==
    Finally([r EXCEPT !.refused = IF rep = "refused" THEN r.wait ELSE @],
            ReplyError(rep))

IsBuild(c) == todo[c].op = "createTransaction"

\* createTransaction up to its first device request.
StartCreateTransaction(c) ==
    /\ IsBuild(c)
    /\ call[c].pc = "idle"
    /\ call' = [call EXCEPT ![c] =
            IF ValidationError(todo[c]) # "none"
            THEN Settle(@, "error", ValidationError(todo[c]))
            ELSE IF PreparedInputs(todo[c]).err # "none"
                THEN Settle(@, "error", PreparedInputs(todo[c]).err)
            ELSE Exchange(@, "RANDOM_KEY_PAIR", "rkp")]
    /\ UNCHANGED <<exch, fn, todo, helper>>

\* From the reply to RANDOM_KEY_PAIR to the TX_START request.
OnRandomKeyPair(c) ==
    /\ IsBuild(c)
    /\ call[c].pc = "rkp"
    /\ \E rep \in Replies :
        LET tx_keys == getRandomKeyPair(RandomKeyPair(c))
            prepared == prepareTransactionOutputs(tx_keys, OutputsOf(todo[c]))
            r == [call[c] EXCEPT
                    !.tx_keys = tx_keys,
                    !.outputs = prepared.sorted,
                    !.transactionOutputs = prepared.outputs,
                    !.transactionInputs =
                        SortTransactionInputs(TransactionInputsOf(todo[c]))]
        IN  call' = [call EXCEPT ![c] =
                IF rep # "ok" THEN BeforeTry(@, ReplyError(rep))
                ELSE IF prepared.err # "none" THEN BeforeTry(r, prepared.err)
                ELSE IF PreparedError(todo[c], r) # "none"
                    THEN BeforeTry(r, PreparedError(todo[c], r))
                ELSE IF StartTransactionError(todo[c]) # "none"
                    THEN Finally([r EXCEPT !.inTry = TRUE], StartTransactionError(todo[c]))
                ELSE Exchange([r EXCEPT
                                !.inTry = TRUE,
                                !.start = <<StartTransactionRequest(
                                                Len(r.transactionInputs),
                                                Len(r.transactionOutputs),
                                                tx_keys.publicKey,
                                                StartPaymentId(todo[c]))>>],
                              "TX_START", "cmd")]
    /\ UNCHANGED <<exch, fn, todo, helper>>

\* The reply to a build command (TX_START ... TX_SIGN).
OnCommandReply(c) ==
    /\ IsBuild(c)
    /\ call[c].pc = "cmd"
    /\ \E rep \in Replies :
        \E h \in Hashes, n \in 0..(MaximumLedgerTransactionSize + 1) :
            call' = [call EXCEPT ![c] =
                IF rep # "ok" THEN CommandFailed(@, rep)
                ELSE IF @.wait = "TX_SIGN"
                    THEN AfterCommand([@ EXCEPT !.sign = [hash |-> h, size |-> n]], todo[c])
                ELSE AfterCommand(@, todo[c])]
    /\ UNCHANGED <<exch, fn, todo, helper>>

\* The reply to a TX_STATE read.
OnStateReply(c) ==
    /\ IsBuild(c)
    /\ call[c].pc = "state"
    /\ \E rep \in Replies, s \in TransactionState :
        call' = [call EXCEPT ![c] =
            IF rep # "ok" THEN CommandFailed(@, rep)
            ELSE CheckState(@, todo[c], s)]
    /\ UNCHANGED <<exch, fn, todo, helper>>

\* The reply to a TX_DUMP request.
OnDumpReply(c) ==
    /\ IsBuild(c)
    /\ call[c].pc = "dump"
    /\ \E rep \in Replies, n \in 0..MaxChunk :
        \E parsed \in ParsedFrom(call[c].buf + n) :
            call' = [call EXCEPT ![c] =
                IF rep # "ok" THEN CommandFailed(@, rep)
                ELSE IF n = 0 THEN Verify(@, parsed)
                ELSE IF @.buf + n < MaximumLedgerTransactionSize
                    THEN Dump([@ EXCEPT !.buf = @ + n])
                ELSE Verify([@ EXCEPT !.buf = @ + n], parsed)]
    /\ UNCHANGED <<exch, fn, todo, helper>>

\* The variant in which an exception already in flight is kept when the
\* cleanup fails.
FinallyCompletesKeepingFailure(r, rep) ==
    IF r.failure # "none"
    THEN Settle([r EXCEPT !.resetReply = rep], "error", r.failure)
    ELSE IF rep # "ok"
        THEN Settle([r EXCEPT !.resetReply = rep], "error", ReplyError(rep))
    ELSE Settle([r EXCEPT !.resetReply = rep], "ok", "none")

\* finally { await this.m_ledger.resetTransaction() } settles: an exception
\* of resetTransaction replaces the outcome of the try block.
FinallyCompletes(r, rep) ==
    IF rep # "ok"
    THEN Settle([r EXCEPT !.resetReply = rep], "error", ReplyError(rep))
    ELSE IF r.failure # "none"
        THEN Settle([r EXCEPT !.resetReply = rep], "error", r.failure)
    ELSE Settle([r EXCEPT !.resetReply = rep], "ok", "none")

\* The reply to the cleanup TX_RESET: the finally block completes.
OnResetReply(c) ==
    /\ IsBuild(c)
    /\ call[c].pc = "reset"
    /\ \E rep \in Replies :
        call' = [call EXCEPT ![c] = FinallyCompletes(@, rep)]
    /\ UNCHANGED <<exch, fn, todo, helper>>

(***************************************************************************)
(* The arguments a caller passes to createTransaction.                     *)
(***************************************************************************)
\* inputs and outputs are the amounts, keyImages[i] is the key image of input
\* i and destinations[i] the destination of output i; randomSets is
\* randomOutputs.length and randomOutputs the length of each of its members;
\* pools are the random outputs themselves and globalIndexes[i] is the
\* globalIndex of input i (the builds made by this operator have random
\* outputs with globalIndexes other than those of the inputs);
\* paymentId is "none" (absent), "" (empty), a payment id, or a malformed string.
\* feeAmount is <<>> when the caller passes none; config is the configuration
\* of the helper the call is made on; deviceState is the transaction state the
\* device is in when the call is made.  The builds made by this operator pay
\* the default fee on a helper in fee-per-byte mode.
DefaultConfig ==
    [activateFeePerByteTransactions |-> TRUE,
     defaultNetworkFee |-> 1,
     maximumOutputsPerTransaction |-> MaxTxCount,
     fusionMinInOutCountRatio |-> 4]

CreateTransaction(inputs, keyImages, outputs, destinations, mixin, paymentId, extraData, randomSets, randomOutputs) ==
    [op |-> "createTransaction", inputs |-> inputs, keyImages |-> keyImages,
     outputs |-> outputs, destinations |-> destinations, mixin |-> mixin,
     paymentId |-> paymentId, extraData |-> extraData,
     randomSets |-> randomSets, randomOutputs |-> randomOutputs,
     pools |-> [i \in 1..randomSets |-> PoolOf([p \in 1..randomOutputs |-> p])],
     globalIndexes |-> [i \in 1..Len(inputs) |-> 0],
     feeAmount |-> <<>>, config |-> DefaultConfig, deviceState |-> INACTIVE]

\* Builds whose inputs have the key images 1, 2, ... in the order given, whose
\* outputs go to plain addresses, and with one set of mixin random outputs per
\* input.
BuildArgs ==
    {CreateTransaction(inputs, [i \in 1..Len(inputs) |-> i],
                       outputs, [i \in 1..Len(outputs) |-> "A"],
                       mixin, paymentId, FALSE, Len(inputs), mixin) :
        inputs \in SeqsUpTo(1..(MaximumOutputAmount + 1), MaxInputs),
        outputs \in SeqsUpTo(1..MaximumOutputAmount, MaxOutputs),
        mixin \in {0, RingSize - 1},
        paymentId \in {"none", "p1", "malformed"}}

(***************************************************************************)
(* fetchKeys, generateKeyImage, generateKeyImagePrimitive,                 *)
(* isOurTransactionOutput, scanTransactionOutputs                          *)
(***************************************************************************)
NoScan ==
    [pc |-> "idle", outputs |-> <<>>, generatePartial |-> FALSE,
     result |-> NoResult, found |-> <<>>]

\* The call is suspended at an await that is not a device exchange.
Await(r, pc) == [r EXCEPT !.wait = "none", !.pc = pc]

\* m_ledger.generateKeyImagePrimitive: one request to the device.
KeyImageCommand == "GENERATE_KEY_IMAGE"
KeyImage == "ki"
NULL_KEY == "0"

\* fetchKeys up to its first await: getPublicKeys().
FetchKeys(r, caller) == Exchange([r EXCEPT !.fk = caller], "PUBLIC_KEYS", "fk_pk")

\* isOurTransactionOutput after its ready check.
IsOurBodyAllowsPartial(r, a) ==
    Await([r EXCEPT !.privRead = viewPriv[m_view]], "io_kdf")

IsOurBody(r, a) ==
    IF a.generatePartial THEN Settle(r, "error", "NotSupported")
    ELSE Await([r EXCEPT !.privRead = viewPriv[m_view]], "io_kdf")

\* generateKeyImage after its ready check.
GenerateKeyImageBody(r) ==
    Await([r EXCEPT !.privRead = viewPriv[m_view]], "gki_kdf")

\* generateKeyImagePrimitive after its ready check.
GenerateKeyImagePrimitiveBody(r) ==
    Await([r EXCEPT !.spendRead = SpendPublicOf(m_spend)], "gkip_dpk")

\* if (!this.ready) { await this.fetchKeys(); }
IsOurEntry(r, a) ==
    IF ~m_fetched THEN FetchKeys(r, "isOur") ELSE IsOurBody(r, a)

GenerateKeyImageEntry(r) ==
    IF ~m_fetched THEN FetchKeys(r, "gki") ELSE GenerateKeyImageBody(r)

GenerateKeyImagePrimitiveEntry(r) ==
    IF ~m_fetched THEN FetchKeys(r, "gkip") ELSE GenerateKeyImagePrimitiveBody(r)

\* The method that awaited fetchKeys goes on.
AfterFetchKeys(r, a) ==
    CASE r.fk = "isOur" -> IsOurBody(r, a)
      [] r.fk = "gki" -> GenerateKeyImageBody(r)
      [] OTHER -> GenerateKeyImagePrimitiveBody(r)

\* `.catch()` as scanTransactionOutputs calls it, without a handler: the
\* promise it returns settles as the one it is called on.
Catch(res) == res

RECURSIVE Collect(_, _, _)
\* for (const result of results) { if (result) ourOutputs.push(result) }
Collect(newCall, k, n) ==
    IF k > n THEN <<>>
    ELSE IF Catch(newCall[k].result).kind = "ok"
        THEN <<newCall[k].out>> \o Collect(newCall, k + 1, n)
    ELSE Collect(newCall, k + 1, n)

\* Promise.all over the calls 1..n of the scan, and the loop after it:
\* rejected with the first rejection, fulfilled once every promise is.
ScanSettle(sc, newCall) ==
    LET n == Len(sc.outputs)
        rejected == {k \in 1..n : Catch(newCall[k].result).kind = "error"}
    IN  IF sc.pc # "waiting" THEN sc
        ELSE IF rejected # {}
            THEN [sc EXCEPT !.pc = "done",
                            !.result = Catch(newCall[CHOOSE k \in rejected : TRUE].result)]
        ELSE IF \A k \in 1..n : Catch(newCall[k].result).kind # "none"
            THEN [sc EXCEPT !.pc = "done",
                            !.result = [kind |-> "ok", err |-> "none"],
                            !.found = Collect(newCall, 1, n)]
        ELSE sc

IsHelper(c, op) == todo[c].op = op

InHelperCall(c) ==
    todo[c].op \in {"isOurTransactionOutput", "generateKeyImage",
                    "generateKeyImagePrimitive", "scanChild"}

\* A caller invokes isOurTransactionOutput.
StartIsOurTransactionOutput(c) ==
    /\ IsHelper(c, "isOurTransactionOutput")
    /\ call[c].pc = "idle"
    /\ call' = [call EXCEPT ![c] = IsOurEntry([@ EXCEPT !.out = todo[c].out], todo[c])]
    /\ scan' = ScanSettle(scan, call')
    /\ UNCHANGED <<exch, fn, todo, m_fetched, m_spend, m_view, m_address, viewPriv>>

\* A caller invokes generateKeyImage.
StartGenerateKeyImage(c) ==
    /\ IsHelper(c, "generateKeyImage")
    /\ call[c].pc = "idle"
    /\ call' = [call EXCEPT ![c] = GenerateKeyImageEntry([@ EXCEPT !.out = todo[c].out])]
    /\ UNCHANGED <<exch, fn, todo, helper>>

\* A caller invokes generateKeyImagePrimitive with a derivation of its own.
StartGenerateKeyImagePrimitive(c) ==
    /\ IsHelper(c, "generateKeyImagePrimitive")
    /\ call[c].pc = "idle"
    /\ call' = [call EXCEPT ![c] =
            GenerateKeyImagePrimitiveEntry(
                [@ EXCEPT !.out = todo[c].out,
                          !.derivation = GenerateKeyDerivation(TxPublic, ViewPrivate)])]
    /\ UNCHANGED <<exch, fn, todo, helper>>

\* scanTransactionOutputs: isOurTransactionOutput is called for every output,
\* each call running up to its first await, and Promise.all is awaited.
StartScan ==
    /\ scan.pc = "idle"
    /\ \A c \in 1..Len(scan.outputs) : IsHelper(c, "scanChild") /\ call[c].pc = "idle"
    /\ call' = [c \in Calls |->
            IF c <= Len(scan.outputs)
            THEN IsOurEntry([call[c] EXCEPT !.out = todo[c].out], todo[c])
            ELSE call[c]]
    /\ scan' = ScanSettle([scan EXCEPT !.pc = "waiting"], call')
    /\ UNCHANGED <<exch, fn, todo, m_fetched, m_spend, m_view, m_address, viewPriv>>

\* fetchKeys after getPublicKeys(): the key pairs are stored, getPrivateViewKey().
OnPublicKeys(c) ==
    /\ InHelperCall(c)
    /\ call[c].pc = "fk_pk"
    /\ \E rep \in Replies :
        /\ call' = [call EXCEPT ![c] =
                IF rep # "ok" THEN Settle(@, "error", ReplyError(rep))
                ELSE Exchange(@, "VIEW_SECRET_KEY", "fk_vk")]
        /\ m_spend' = IF rep = "ok" THEN c ELSE m_spend
        /\ m_view' = IF rep = "ok" THEN c ELSE m_view
    /\ scan' = ScanSettle(scan, call')
    /\ UNCHANGED <<exch, fn, todo, m_fetched, m_address, viewPriv>>

\* fetchKeys after getPrivateViewKey(): this.m_view.setPrivateKey(...).
OnViewSecretKey(c) ==
    /\ InHelperCall(c)
    /\ call[c].pc = "fk_vk"
    /\ \E rep \in Replies :
        call' = [call EXCEPT ![c] =
            IF rep # "ok" THEN Settle(@, "error", ReplyError(rep))
            ELSE Await([@ EXCEPT !.setTarget = m_view], "fk_setpriv")]
    /\ scan' = ScanSettle(scan, call')
    /\ UNCHANGED <<exch, fn, todo, m_fetched, m_spend, m_view, m_address, viewPriv>>

\* KeyPair.setPrivateKey has stored the key; Address.fromPublicKeys(...).
OnSetPrivateKey(c) ==
    /\ InHelperCall(c)
    /\ call[c].pc = "fk_setpriv"
    /\ viewPriv' = [viewPriv EXCEPT ![call[c].setTarget] = ViewPrivate]
    /\ call' = [call EXCEPT ![c] = Await(@, "fk_addr")]
    /\ UNCHANGED <<exch, fn, todo, m_fetched, m_spend, m_view, m_address, scan>>

\* fetchKeys stores the address and sets m_fetched; its caller goes on.
OnAddress(c) ==
    /\ InHelperCall(c)
    /\ call[c].pc = "fk_addr"
    /\ m_address' = c
    /\ m_fetched' = TRUE
    /\ call' = [call EXCEPT ![c] = AfterFetchKeys(@, todo[c])]
    /\ scan' = ScanSettle(scan, call')
    /\ UNCHANGED <<exch, fn, todo, m_spend, m_view, viewPriv>>

\* isOurTransactionOutput after generateKeyDerivation: derivePublicKey(...).
OnIsOurDerivation(c) ==
    /\ InHelperCall(c)
    /\ call[c].pc = "io_kdf"
    /\ call' = [call EXCEPT ![c] =
            IF @.privRead = NoKey THEN Settle(@, "error", "CryptoError")
            ELSE Await([@ EXCEPT !.derivation = GenerateKeyDerivation(TxPublic, call[c].privRead),
                                 !.spendRead = SpendPublicOf(m_spend)], "io_dpk")]
    /\ scan' = ScanSettle(scan, call')
    /\ UNCHANGED <<exch, fn, todo, m_fetched, m_spend, m_view, m_address, viewPriv>>

\* if (publicEphemeral === output.key)
IsOurKeyWhateverTheKey(publicEphemeral, output) == TRUE

IsOurKey(publicEphemeral, output) == publicEphemeral = output.key

\* isOurTransactionOutput after derivePublicKey: the comparison with output.key.
OnIsOurPublicKey(c) ==
    /\ InHelperCall(c)
    /\ call[c].pc = "io_dpk"
    /\ call' = [call EXCEPT ![c] =
            IF @.spendRead = NoKey THEN Settle(@, "error", "CryptoError")
            ELSE IF IsOurKey(DerivePublicKey(call[c].derivation, call[c].out.index,
                                             call[c].spendRead), @.out)
                THEN GenerateKeyImageEntry(
                        [@ EXCEPT !.out.input =
                            [publicEphemeral |->
                                DerivePublicKey(call[c].derivation, call[c].out.index, call[c].spendRead),
                             transactionKeys |->
                                [publicKey |-> TxPublic,
                                 derivedKey |-> call[c].derivation,
                                 outputIndex |-> call[c].out.index],
                             privateEphemeral |-> "unset"]])
            ELSE Settle(@, "error", "NotOurOutput")]
    /\ scan' = ScanSettle(scan, call')
    /\ UNCHANGED <<exch, fn, todo, m_fetched, m_spend, m_view, m_address, viewPriv>>

\* generateKeyImage after generateKeyDerivation: generateKeyImagePrimitive(...).
OnGenerateKeyImageDerivation(c) ==
    /\ InHelperCall(c)
    /\ call[c].pc = "gki_kdf"
    /\ call' = [call EXCEPT ![c] =
            IF @.privRead = NoKey THEN Settle(@, "error", "CryptoError")
            ELSE GenerateKeyImagePrimitiveEntry(
                    [@ EXCEPT !.derivation = GenerateKeyDerivation(TxPublic, call[c].privRead)])]
    /\ scan' = ScanSettle(scan, call')
    /\ UNCHANGED <<exch, fn, todo, m_fetched, m_spend, m_view, m_address, viewPriv>>

\* generateKeyImagePrimitive after derivePublicKey: the request to the device.
OnPrimitivePublicKey(c) ==
    /\ InHelperCall(c)
    /\ call[c].pc = "gkip_dpk"
    /\ call' = [call EXCEPT ![c] =
            IF @.spendRead = NoKey THEN Settle(@, "error", "CryptoError")
            ELSE Exchange(@, KeyImageCommand, "gkip_dev")]
    /\ scan' = ScanSettle(scan, call')
    /\ UNCHANGED <<exch, fn, todo, m_fetched, m_spend, m_view, m_address, viewPriv>>

\* The key image arrives; isOurTransactionOutput completes the output.
OnKeyImage(c) ==
    /\ InHelperCall(c)
    /\ call[c].pc = "gkip_dev"
    /\ \E rep \in Replies :
        call' = [call EXCEPT ![c] =
            IF rep # "ok" THEN Settle(@, "error", ReplyError(rep))
            ELSE IF todo[c].op \in {"isOurTransactionOutput", "scanChild"}
                THEN Settle([@ EXCEPT !.out.input.privateEphemeral = NULL_KEY,
                                      !.out.keyImage = KeyImage], "ok", "none")
            ELSE Settle([@ EXCEPT !.out.keyImage = KeyImage], "ok", "none")]
    /\ scan' = ScanSettle(scan, call')
    /\ UNCHANGED <<exch, fn, todo, m_fetched, m_spend, m_view, m_address, viewPriv>>

\* The outputs a caller may pass: at an index, with the key the wallet's keys
\* derive for that index or with the key another wallet's keys derive.
OutputAt(i, ours) ==
    [NoOutput EXCEPT
        !.index = i,
        !.key = DerivePublicKey(
                    GenerateKeyDerivation(TxPublic, IF ours THEN ViewPrivate ELSE "w"),
                    i, SpendPublic)]

Outputs == {OutputAt(i, ours) : i \in 0..MaxOutputIndex, ours \in BOOLEAN}

IsOurs(o) == o.key = OutputAt(o.index, TRUE).key

HelperArgs ==
    [op : {"isOurTransactionOutput"}, out : Outputs, generatePartial : {FALSE}]
    \cup [op : {"isOurTransactionOutput"}, out : {OutputAt(0, TRUE)},
          generatePartial : {TRUE}]
    \cup [op : {"generateKeyImage", "generateKeyImagePrimitive"},
          out : {OutputAt(0, TRUE)}, generatePartial : {FALSE}]


InitHelper ==
    /\ m_fetched = FALSE
    /\ m_spend = 0
    /\ m_view = 0
    /\ m_address = 0
    /\ viewPriv = [o \in Objects |-> NoKey]

\* One caller builds one transaction.
Init ==
    /\ \E a \in BuildArgs : todo = [c \in Calls |-> IF c = 1 THEN a ELSE NoArgs]
    /\ call = [c \in Calls |-> IdleCall]
    /\ InitHelper
    /\ OnlyCalls
    /\ scan = NoScan

BuildStep(c) ==
    \/ StartCreateTransaction(c)
    \/ OnRandomKeyPair(c)
    \/ OnCommandReply(c)
    \/ OnStateReply(c)
    \/ OnDumpReply(c)
    \/ OnResetReply(c)

Next == \E c \in Calls : BuildStep(c)

Spec == Init /\ [][Next]_vars

\* Two callers build a transaction each on the same helper.
InitBuilds ==
    /\ \E a \in {b \in BuildArgs : /\ b.mixin = RingSize - 1
                                   /\ b.paymentId = "none"
                                   /\ b.inputs = <<1>>
                                   /\ Len(b.outputs) = 1} :
            todo = [c \in Calls |-> IF c <= 2 THEN a ELSE NoArgs]
    /\ call = [c \in Calls |-> IdleCall]
    /\ InitHelper
    /\ OnlyCalls
    /\ scan = NoScan

SpecBuilds == InitBuilds /\ [][Next]_vars

\* One caller builds a transaction whose inputs have any key images, whose
\* outputs have any amounts and go to plain or integrated addresses, with or
\* without a payment id, extra data and a matching number of random output
\* sets.
OrderArgs ==
    {CreateTransaction(inputs, keyImages, outputs, destinations,
                       RingSize - 1, paymentId, extraData,
                       Len(inputs) + surplus, RingSize - 1) :
        <<inputs, keyImages>> \in
            UNION {[1..n -> 1..MaximumOutputAmount] \X [1..n -> 1..MaxKeyImage] :
                        n \in 1..MaxInputs},
        <<outputs, destinations>> \in
            UNION {[1..n -> 1..(MaximumOutputAmount + 1)] \X [1..n -> Destinations] :
                        n \in 1..MaxOutputs},
        paymentId \in {"none"} \cup PaymentIds,
        <<extraData, surplus>> \in {<<FALSE, 0>>, <<FALSE, 1>>, <<TRUE, 0>>}}

InitOrder ==
    /\ \E a \in OrderArgs :
        todo = [c \in Calls |-> IF c = 1 THEN a ELSE NoArgs]
    /\ call = [c \in Calls |-> IdleCall]
    /\ InitHelper
    /\ OnlyCalls
    /\ scan = NoScan

SpecOrder == InitOrder /\ [][Next]_vars

\* One caller builds a transaction on a helper in fixed-fee or fee-per-byte
\* mode, with no fee argument, a zero fee (fusion) or a fee of two units, from
\* a few inputs or about as many as a fusion needs, each of one unit (or a
\* first one of none), while the device is idle or was left in a build; the
\* destinations are plain addresses, or integrated addresses in conflict with
\* each other and with the payment id passed.
FeeConfigs ==
    [activateFeePerByteTransactions : BOOLEAN,
     defaultNetworkFee : {1},
     maximumOutputsPerTransaction : {1, MaxTxCount},
     fusionMinInOutCountRatio : {4, FusionMinInputs}]

FeeArgs ==
    {[CreateTransaction(inputs, [i \in 1..Len(inputs) |-> i],
                        outputs,
                        [i \in 1..Len(outputs) |->
                            IF ~conflict THEN "A" ELSE IF i = 1 THEN "B" ELSE "C"],
                        RingSize - 1, IF conflict THEN "p2" ELSE "none",
                        extraData, Len(inputs), RingSize - 1)
        EXCEPT !.feeAmount = feeAmount, !.config = config,
               !.deviceState = deviceState] :
        inputs \in {Repeat(1, n) : n \in {1, 2, FusionMinInputs - 1, FusionMinInputs}}
                    \cup {<<0, 2>>},
        outputs \in {<<1>>, <<1, 1>>, <<2>>, <<MaximumOutputAmount + 1>>, <<0>>},
        conflict \in BOOLEAN,
        feeAmount \in {<<>>, <<0>>, <<2>>},
        config \in FeeConfigs,
        extraData \in BOOLEAN,
        deviceState \in {INACTIVE, READY}}

InitFees ==
    /\ \E a \in FeeArgs : todo = [c \in Calls |-> IF c = 1 THEN a ELSE NoArgs]
    /\ call = [c \in Calls |-> IdleCall]
    /\ InitHelper
    /\ OnlyCalls
    /\ scan = NoScan

SpecFees == InitFees /\ [][Next]_vars

\* Callers use the key-dependent methods of one helper: a scan over some
\* outputs (its calls are the first ones), and direct calls beside it.
InitCalls ==
    /\ \E outs \in SeqsUpTo(Outputs, MaxScan) :
        /\ scan = [NoScan EXCEPT !.outputs = outs]
        /\ \E t \in [Calls -> HelperArgs \cup {NoArgs}] :
            todo = [c \in Calls |->
                IF c <= Len(outs)
                THEN [op |-> "scanChild", out |-> outs[c], generatePartial |-> FALSE]
                ELSE t[c]]
    /\ call = [c \in Calls |-> IdleCall]
    /\ InitHelper
    /\ OnlyCalls

HelperStep(c) ==
    \/ StartIsOurTransactionOutput(c)
    \/ StartGenerateKeyImage(c)
    \/ StartGenerateKeyImagePrimitive(c)
    \/ OnPublicKeys(c)
    \/ OnViewSecretKey(c)
    \/ OnSetPrivateKey(c)
    \/ OnAddress(c)
    \/ OnIsOurDerivation(c)
    \/ OnIsOurPublicKey(c)
    \/ OnGenerateKeyImageDerivation(c)
    \/ OnPrimitivePublicKey(c)
    \/ OnKeyImage(c)

NextCalls == StartScan \/ \E c \in Calls : HelperStep(c)

SpecCalls == InitCalls /\ [][NextCalls]_vars

(***************************************************************************)
(* createTransactionStructure, prepareTransaction, completeTransaction.    *)
(***************************************************************************)
UnsupportedOperations ==
    {"createTransactionStructure", "prepareTransaction", "completeTransaction"}

\* Each of the three methods throws 'Not implemented' as soon as it is called.
StartUnsupported(c) ==
    /\ todo[c].op \in UnsupportedOperations
    /\ call[c].pc = "idle"
    /\ call' = [call EXCEPT ![c] = Settle(@, "error", "NotImplemented")]
    /\ UNCHANGED <<exch, fn, todo, helper>>

\* Callers use one helper: a scan over some outputs, with or without
\* generatePartial, and beside it calls of the key-dependent methods, of the
\* three methods above, and of createTransaction with extra data.
UnsupportedArgs ==
    HelperArgs
    \cup [op : UnsupportedOperations]
    \cup {CreateTransaction(<<1>>, <<1>>, <<1>>, <<"A">>, RingSize - 1, "none",
                            TRUE, 1, RingSize - 1)}

InitUnsupported ==
    /\ \E outs \in SeqsUpTo(Outputs, MaxScan), partial \in BOOLEAN :
        /\ scan = [NoScan EXCEPT !.outputs = outs, !.generatePartial = partial]
        /\ \E t \in [Calls -> UnsupportedArgs \cup {NoArgs}] :
            todo = [c \in Calls |->
                IF c <= Len(outs)
                THEN [op |-> "scanChild", out |-> outs[c], generatePartial |-> partial]
                ELSE t[c]]
    /\ call = [c \in Calls |-> IdleCall]
    /\ InitHelper
    /\ OnlyCalls

NextUnsupported ==
    \/ StartScan
    \/ \E c \in Calls :
        \/ HelperStep(c)
        \/ StartUnsupported(c)
        \/ StartCreateTransaction(c)

SpecUnsupported == InitUnsupported /\ [][NextUnsupported]_vars

(***************************************************************************)
(* Properties of one build.                                                *)
(***************************************************************************)
Range(s) == {s[i] : i \in 1..Len(s)}

IsPrefix(s, t) == Len(s) <= Len(t) /\ \A i \in 1..Len(s) : s[i] = t[i]

Done(c) == call[c].pc = "done"

Succeeded(c) == Done(c) /\ call[c].result.kind = "ok"

Failed(c) == Done(c) /\ call[c].result.kind = "error"

\* The commands of a build other than its TX_STATE reads.
Commands(c) == Without(call[c].log, "TX_STATE")

\* TX_START ... TX_SIGN for n inputs and m outputs, without the state reads.
PhaseCommands(n, m) ==
    <<"TX_START", "TX_START_INPUT_LOAD">> \o Repeat("TX_LOAD_INPUT", n)
        \o <<"TX_START_OUTPUT_LOAD">> \o Repeat("TX_LOAD_OUTPUT", m)
        \o <<"TX_FINALIZE_TX_PREFIX", "TX_SIGN">>

\* The same with the TX_STATE read that follows each phase.
PhaseCommandsWithReads(n, m) ==
    <<"TX_START", "TX_STATE", "TX_START_INPUT_LOAD", "TX_STATE">>
        \o Repeat("TX_LOAD_INPUT", n)
        \o <<"TX_STATE", "TX_START_OUTPUT_LOAD", "TX_STATE">>
        \o Repeat("TX_LOAD_OUTPUT", m)
        \o <<"TX_STATE", "TX_FINALIZE_TX_PREFIX", "TX_STATE", "TX_SIGN", "TX_STATE">>

IsPhaseOrRead(x) == x \notin {"RANDOM_KEY_PAIR", "TX_DUMP", "TX_RESET"}

\* C1: once a build has entered its try block (the TX_START step), however
\* it ends it has issued TX_RESET, exactly once, and TX_RESET is the last
\* command the build hands to the transport.
C1_ResetOnEveryExit ==
    \A c \in Calls : IsBuild(c) =>
        /\ (Done(c) /\ call[c].inTry) => "TX_RESET" \in Range(call[c].log)
        /\ "TX_RESET" \in Range(call[c].log) =>
            /\ Last(call[c].log) = "TX_RESET"
            /\ Count(call[c].log, "TX_RESET") = 1
            /\ call[c].inTry

\* A build that a loader rejected locally has ended.
C1_Witness ==
    \E c \in Calls :
        /\ IsBuild(c) /\ Failed(c) /\ call[c].inTry
        /\ call[c].result.err = "InvalidArgument"
        /\ "TX_START_INPUT_LOAD" \in Range(call[c].log)

\* C2 as stated: the commands of a successful build with N inputs and M
\* outputs, TX_STATE reads aside, are TX_START, TX_START_INPUT_LOAD,
\* N TX_LOAD_INPUT, TX_START_OUTPUT_LOAD, M TX_LOAD_OUTPUT,
\* TX_FINALIZE_TX_PREFIX, TX_SIGN, one or more TX_DUMP, TX_RESET, and nothing else.
C2_AsStated ==
    \A c \in Calls : (IsBuild(c) /\ Succeeded(c)) =>
        \E k \in 1..MaximumLedgerTransactionSize :
            Commands(c) =
                PhaseCommands(Len(todo[c].inputs), Len(todo[c].outputs))
                    \o Repeat("TX_DUMP", k) \o <<"TX_RESET">>

\* C2 (amended): the commands of a successful build with N inputs and M
\* outputs, TX_STATE reads aside, are RANDOM_KEY_PAIR once, and then exactly
\* TX_START, TX_START_INPUT_LOAD, N TX_LOAD_INPUT, TX_START_OUTPUT_LOAD,
\* M TX_LOAD_OUTPUT, TX_FINALIZE_TX_PREFIX, TX_SIGN, one or more TX_DUMP,
\* TX_RESET.
C2_CommandOrder ==
    \A c \in Calls : (IsBuild(c) /\ Succeeded(c)) =>
        \E k \in 1..MaximumLedgerTransactionSize :
            Commands(c) =
                <<"RANDOM_KEY_PAIR">>
                    \o PhaseCommands(Len(todo[c].inputs), Len(todo[c].outputs))
                    \o Repeat("TX_DUMP", k) \o <<"TX_RESET">>

\* A build with the most inputs, some outputs and two dumps has succeeded.
C2_Witness ==
    \E c \in Calls :
        /\ IsBuild(c) /\ Succeeded(c)
        /\ Len(todo[c].inputs) = MaxInputs
        /\ Len(todo[c].outputs) >= 1
        /\ Count(call[c].log, "TX_DUMP") >= 2

\* C3: TX_STATE is read after TX_START, TX_START_INPUT_LOAD, the last
\* TX_LOAD_INPUT, TX_START_OUTPUT_LOAD, the last TX_LOAD_OUTPUT,
\* TX_FINALIZE_TX_PREFIX and TX_SIGN, and the reads that let the build go on
\* returned READY .. COMPLETE in that order; a read that returns another
\* state is the last thing before TX_RESET, and the build fails.
C3_StateReads ==
    \A c \in Calls : IsBuild(c) =>
        LET r == call[c]
            n == Len(todo[c].inputs)
            m == Len(todo[c].outputs)
            phase == SelectSeq(r.log, IsPhaseOrRead)
        IN  /\ IsPrefix(phase, PhaseCommandsWithReads(n, m))
            /\ "TX_DUMP" \in Range(r.log) => phase = PhaseCommandsWithReads(n, m)
            /\ Len(r.seen) <= COMPLETE
            /\ Count(r.log, "TX_STATE") \in {Len(r.seen), Len(r.seen) + 1}
            /\ \A k \in 1..(Len(r.seen) - 1) : r.seen[k] = k
            /\ (r.seen # <<>> /\ Last(r.seen) # Len(r.seen)) =>
                /\ Count(r.log, "TX_STATE") = Len(r.seen)
                /\ Len(r.log) >= 2
                /\ r.log[Len(r.log) - 1] = "TX_STATE"
                /\ Last(r.log) = "TX_RESET"
                /\ r.failure = "DeviceStateError"
                /\ Done(c) => r.result.kind = "error"

\* A build whose third read (after the inputs) returned RECEIVING_OUTPUTS has failed.
C3_Witness ==
    \E c \in Calls :
        /\ IsBuild(c) /\ Failed(c)
        /\ call[c].seen = <<READY, RECEIVING_INPUTS, RECEIVING_OUTPUTS>>
        /\ Len(todo[c].inputs) >= 1
        /\ call[c].result.err = "DeviceStateError"

\* C4 as stated: when the device refuses a build command, no later command
\* but TX_RESET is sent, and the build fails with a device protocol error.
C4_AsStated ==
    \A c \in Calls : (IsBuild(c) /\ call[c].refused # "none") =>
        LET r == call[c]
        IN  /\ Len(r.log) >= 2
            /\ r.log[Len(r.log) - 1] = r.refused
            /\ Last(r.log) = "TX_RESET"
            /\ Done(c) => r.result = [kind |-> "error", err |-> "DeviceProtocolError"]

\* C4 (amended): when the device refuses a build command, no later command
\* but TX_RESET is sent, and the build fails: with the device protocol error,
\* unless the transport fails during the cleanup TX_RESET, and then with that
\* transport error.
C4_RefusalEndsBuild ==
    \A c \in Calls : (IsBuild(c) /\ call[c].refused # "none") =>
        LET r == call[c]
        IN  /\ Len(r.log) >= 2
            /\ r.log[Len(r.log) - 1] = r.refused
            /\ Last(r.log) = "TX_RESET"
            /\ Done(c) =>
                r.result = [kind |-> "error",
                            err |-> IF r.resetReply = "transport"
                                    THEN "TransportError"
                                    ELSE "DeviceProtocolError"]

\* A build whose TX_SIGN was refused has ended, its TX_RESET accepted.
C4_Witness ==
    \E c \in Calls :
        /\ IsBuild(c) /\ Failed(c)
        /\ call[c].refused = "TX_SIGN"
        /\ call[c].resetReply = "ok"

\* C5: a build returns a transaction only if the transaction parsed from the
\* dumped bytes has the hash and the size TX_SIGN returned; if either differs
\* the build issues TX_RESET and fails.
C5_HashAndSizeMatch ==
    \A c \in Calls : IsBuild(c) =>
        LET r == call[c]
        IN  /\ Succeeded(c) =>
                /\ r.tx # NoTx
                /\ r.tx.hash = r.sign.hash
                /\ r.tx.size = r.sign.size
            /\ (r.tx # NoTx /\ (r.tx.hash # r.sign.hash \/ r.tx.size # r.sign.size)) =>
                /\ Last(r.log) = "TX_RESET"
                /\ r.failure \in {"HashMismatch", "SizeMismatch"}
                /\ Done(c) => r.result.kind = "error"

\* A build whose dumped transaction has the signed hash but another size has failed.
C5_Witness ==
    \E c \in Calls :
        /\ IsBuild(c) /\ Failed(c)
        /\ call[c].tx # NoTx
        /\ call[c].tx.hash = call[c].sign.hash
        /\ call[c].tx.size # call[c].sign.size
        /\ call[c].result.err = "SizeMismatch"

(***************************************************************************)
(* Properties of calls that share the helper and its device.               *)
(***************************************************************************)

\* The calls whose request the transport holds and has not answered.
Outstanding == {c \in Calls : call[c].wait # "none"}

\* C6: a request is never handed to the transport while the response to an
\* earlier request is still outstanding.
C6_AsStated == Cardinality(Outstanding) <= 1

TxCommands ==
    {"TX_STATE", "TX_RESET", "TX_START", "TX_START_INPUT_LOAD", "TX_LOAD_INPUT",
     "TX_START_OUTPUT_LOAD", "TX_LOAD_OUTPUT", "TX_FINALIZE_TX_PREFIX",
     "TX_SIGN", "TX_DUMP"}

\* The build has sent its TX_START and not yet its TX_RESET.
InConstruction(c) ==
    /\ IsBuild(c)
    /\ "TX_START" \in Range(call[c].log)
    /\ "TX_RESET" \notin Range(call[c].log)

\* C7: when two createTransaction calls run on one helper, no TX_* command
\* of one build is sent between the other build's TX_START and that build's
\* TX_RESET.
C7_AsStated ==
    [][\A c \in Calls : \A d \in Calls \ {c} :
            (IsBuild(c) /\ InConstruction(d))
                => \/ call'[c].log = call[c].log
                   \/ Last(call'[c].log) \notin TxCommands]_vars

\* The requests of a command that the calls have made so far.
Requested(cmd) ==
    SumSeq([c \in Calls |-> Count(call[c].log, cmd)])

DeviceFailed(c) ==
    call[c].result.err \in {"DeviceProtocolError", "TransportError"}

\* C8: once a fetch has succeeded, and no request has failed, PUBLIC_KEYS and
\* VIEW_SECRET_KEY have each been requested at most once, also when several
\* calls that need the keys were started before the first fetch completed.
C8_AsStated ==
    (m_fetched /\ \A c \in Calls : ~DeviceFailed(c))
        => Requested("PUBLIC_KEYS") <= 1 /\ Requested("VIEW_SECRET_KEY") <= 1

Populated ==
    /\ SpendPublicOf(m_spend) # NoKey
    /\ ViewPublicOf(m_view) # NoKey
    /\ viewPriv[m_view] # NoKey
    /\ m_address # 0

\* C9: while ready is true the spend public key, the view public key, the
\* view private key and the address are populated and do not change, and a
\* call past its ready check has not read a missing view private key.
C9_AsStated ==
    /\ [](m_fetched => Populated)
    /\ [](m_fetched =>
            \A c \in Calls :
                call[c].pc \in {"io_kdf", "gki_kdf"} => call[c].privRead # NoKey)
    /\ [][m_fetched => UNCHANGED <<m_spend, m_view, m_address, viewPriv>>]_vars

\* The outputs as a caller tells them apart: by index and key.
Keys(s) == [i \in 1..Len(s) |-> <<s[i].index, s[i].key>>]

\* C10: a scan none of whose calls failed for another reason than that the
\* output is not ours returns the outputs of its list that are ours, in the
\* order of the list.
C10_AsStated ==
    (/\ scan.pc = "done"
     /\ \A c \in 1..Len(scan.outputs) :
            call[c].result.kind = "error" => call[c].result.err = "NotOurOutput")
        => /\ scan.result.kind = "ok"
           /\ Keys(scan.found) = Keys(SelectSeq(scan.outputs, IsOurs))


(***************************************************************************)
(* LedgerDevice.exchange, byte by byte.                                    *)
(***************************************************************************)
P2 == 0
P1_NON_CONFIRM == 0
P1_CONFIRM == 1
INS == 224
CMD ==
    [VERSION |-> 1, CHECK_KEY |-> 22, CHECK_SCALAR |-> 23, PRIVATE_TO_PUBLIC |-> 24,
     GENERATE_KEY_IMAGE |-> 64, GENERATE_RING_SIGNATURES |-> 80,
     COMPLETE_RING_SIGNATURE |-> 81, CHECK_RING_SIGNATURES |-> 82,
     GENERATE_SIGNATURE |-> 85, CHECK_SIGNATURE |-> 86,
     GENERATE_KEY_DERIVATION |-> 96, DERIVE_PUBLIC_KEY |-> 97,
     DERIVE_SECRET_KEY |-> 98, TX_START |-> 113, TX_LOAD_INPUT |-> 115,
     TX_LOAD_OUTPUT |-> 117]
OK == 36864
\* if (data.length > (512 - 6))
MaxRequest == 512
HeaderLength == 6

\* Bounds: the data of a request is short (0..MaxShort bytes) or around the
\* limit (up to MaxOver bytes beyond it); a response body has up to MaxBody
\* bytes, each one of ByteSamples.
MaxShort == 2
MaxOver == 2
MaxBody == 3
ByteSamples == {0, 105, 144}

MaxPayload == MaxRequest - HeaderLength

\* Writer.uint16_t(value, true) and Reader.uint16_t(true): big-endian.
U16be(n) == <<(n % 65536) \div 256, n % 256>>
FromU16be(b) == b[1] * 256 + b[2]

\* The `confirm = true` default and the test `if (confirm)`.
Confirmed(confirm) == confirm # "false"

\* The bytes exchange writes for a request.
FrameLengthLittleEndian(command, confirm, hasData, data) ==
    <<INS, command, IF Confirmed(confirm) THEN P1_CONFIRM ELSE P1_NON_CONFIRM, P2>>
        \o (IF hasData
            THEN <<Len(data) % 256, (Len(data) % 65536) \div 256>> \o data
            ELSE U16be(0))

Frame(command, confirm, hasData, data) ==
    <<INS, command, IF Confirmed(confirm) THEN P1_CONFIRM ELSE P1_NON_CONFIRM, P2>>
        \o (IF hasData THEN U16be(Len(data)) \o data ELSE U16be(0))

NoOutcome == [kind |-> "none", err |-> "none", code |-> 0, body |-> <<>>]

IdleExchange ==
    [pc |-> "idle", op |-> "exchange", command |-> CMD.VERSION, confirm |-> "undefined",
     hasData |-> FALSE, data |-> <<>>,
     args |-> <<>>,       \* the arguments of the operation that calls exchange
     events |-> <<>>,     \* the 'send' and 'receive' events emitted so far
     handed |-> <<>>,     \* the requests handed to m_transport.exchange
     steps |-> <<>>,      \* emit, transport call and status test, in program order
     response |-> <<>>,   \* what the transport returned
     outcome |-> NoOutcome]

Thrown(x, err, code) ==
    [x EXCEPT !.pc = "done",
              !.outcome = [kind |-> "error", err |-> err, code |-> code, body |-> <<>>]]

\* exchange up to `yield this.m_transport.exchange(...)`.
ExchangeSendChecksAfterEmit(x) ==
    LET frame == Frame(x.command, x.confirm, x.hasData, x.data)
        sent == [x EXCEPT !.events = Append(@, <<"send", frame>>),
                          !.steps = Append(@, "send")]
    IN  IF x.hasData /\ Len(x.data) > MaxPayload
        THEN Thrown(sent, "PayloadTooLarge", 0)
        ELSE [sent EXCEPT !.pc = "sent", !.handed = Append(@, frame),
                          !.steps = Append(@, "transport")]

ExchangeSend(x) ==
    LET frame == Frame(x.command, x.confirm, x.hasData, x.data)
    IN  IF x.hasData /\ Len(x.data) > MaxPayload
        THEN Thrown(x, "PayloadTooLarge", 0)
        ELSE [x EXCEPT !.pc = "sent",
                       !.events = Append(@, <<"send", frame>>),
                       !.handed = Append(@, frame),
                       !.steps = @ \o <<"send", "transport">>]

\* exchange from the transport's result on.
ExchangeReceiveStatusOnly(x, result) ==
    LET n == Len(result)
        code == SubSeq(result, n - 1, n)
        response == SubSeq(result, 1, n - 2)
        received == [x EXCEPT !.events = Append(@, <<"receive", result>>),
                              !.response = result,
                              !.steps = @ \o <<"receive", "status">>]
    IN  IF FromU16be(code) # OK
        THEN Thrown(received, "DeviceProtocolError", FromU16be(code))
        ELSE [received EXCEPT
                !.pc = "done",
                !.outcome = [kind |-> "ok", err |-> "none", code |-> 0,
                             body |-> response]]

\* The variant that tests the status word first and emits 'receive' for a
\* successful exchange only.
ExchangeReceiveOnSuccess(x, result) ==
    LET n == Len(result)
        code == SubSeq(result, n - 1, n)
        response == SubSeq(result, 1, n - 2)
        returned == [x EXCEPT !.response = result, !.steps = Append(@, "status")]
    IN  IF FromU16be(code) # OK
        THEN Thrown(returned, "DeviceProtocolError",
                    IF Len(response) >= 2
                    THEN FromU16be(SubSeq(response, 1, 2))
                    ELSE FromU16be(code))
        ELSE [returned EXCEPT
                !.pc = "done",
                !.events = Append(@, <<"receive", result>>),
                !.steps = Append(@, "receive"),
                !.outcome = [kind |-> "ok", err |-> "none", code |-> 0,
                             body |-> response]]

ExchangeReceive(x, result) ==
    LET n == Len(result)
        code == SubSeq(result, n - 1, n)
        response == SubSeq(result, 1, n - 2)
        received == [x EXCEPT !.events = Append(@, <<"receive", result>>),
                              !.response = result,
                              !.steps = @ \o <<"receive", "status">>]
    IN  IF FromU16be(code) # OK
        THEN Thrown(received, "DeviceProtocolError",
                    IF Len(response) >= 2
                    THEN FromU16be(SubSeq(response, 1, 2))
                    ELSE FromU16be(code))
        ELSE [received EXCEPT
                !.pc = "done",
                !.outcome = [kind |-> "ok", err |-> "none", code |-> 0,
                             body |-> response]]

\* What a transport may return: a body and a status word.
Results ==
    {body \o sw : body \in SeqsUpTo(ByteSamples, MaxBody), sw \in [1..2 -> ByteSamples]}

\* The data a caller passes: n bytes.
DataOf(n) == [i \in 1..n |-> i % 256]

DataLengths == 0..MaxShort \cup (MaxPayload - 1)..(MaxPayload + MaxOver)

ExchangeArgs ==
    {[IdleExchange EXCEPT !.command = cmd, !.confirm = cf, !.hasData = TRUE,
                          !.data = DataOf(n)] :
        cmd \in {CMD.VERSION, CMD.CHECK_KEY}, cf \in {"undefined", "true", "false"},
        n \in DataLengths}
    \cup {[IdleExchange EXCEPT !.command = cmd, !.confirm = cf] :
        cmd \in {CMD.VERSION, CMD.CHECK_KEY}, cf \in {"undefined", "true", "false"}}

\* No caller uses the helper.
NoCalls ==
    /\ todo = [c \in Calls |-> NoArgs]
    /\ call = [c \in Calls |-> IdleCall]
    /\ InitHelper
    /\ scan = NoScan

InitExchange ==
    /\ exch \in ExchangeArgs
    /\ fn = NoApplication
    /\ NoCalls

\* A caller invokes exchange(command, confirm, data).
CallExchange ==
    /\ exch.pc = "idle"
    /\ exch.op = "exchange"
    /\ exch' = ExchangeSend(exch)
    /\ UNCHANGED <<fn, todo, call, helper>>

\* m_transport.exchange settles: with a result, or with a failure of its own.
OnTransportResult ==
    /\ exch.pc = "sent"
    /\ \/ \E result \in Results : exch' = ExchangeReceive(exch, result)
       \/ exch' = Thrown(exch, "TransportError", 0)
    /\ UNCHANGED <<fn, todo, call, helper>>

NextExchange == CallExchange \/ OnTransportResult

SpecExchange == InitExchange /\ [][NextExchange]_vars

\* The number of data bytes the caller passed.
DataBytes == IF exch.hasData THEN Len(exch.data) ELSE 0

\* C11: every request handed to the transport is E0, the command id, P1 (01
\* unless confirmation was declined, then 00), P2 = 00, the number of data
\* bytes as two big-endian bytes, and exactly the data bytes: 6 + LEN bytes in
\* all, never more than 512.
C11_RequestLayout ==
    \A i \in 1..Len(exch.handed) :
        LET f == exch.handed[i]
        IN  /\ Len(f) = 6 + DataBytes
            /\ Len(f) <= 512
            /\ f[1] = 224
            /\ f[2] = exch.command
            /\ f[3] = (IF exch.confirm = "false" THEN 0 ELSE 1)
            /\ f[4] = 0
            /\ f[5] * 256 + f[6] = DataBytes
            /\ SubSeq(f, 7, Len(f)) = (IF exch.hasData THEN exch.data ELSE <<>>)

C11_Witness ==
    /\ exch.op = "exchange"
    /\ Len(exch.handed) = 1
    /\ DataBytes = 506
    /\ exch.confirm = "false"

\* C12: a request whose data is longer than 506 bytes fails locally: no send
\* event is emitted and the transport is not called.
C12_PayloadTooLarge ==
    (exch.pc \notin {"none", "idle"} /\ DataBytes > 506)
        => /\ exch.pc = "done"
           /\ exch.outcome.kind = "error"
           /\ exch.events = <<>>
           /\ exch.handed = <<>>

C12_Witness ==
    /\ exch.op = "exchange"
    /\ exch.pc = "done"
    /\ DataBytes = 507
    /\ exch.outcome.err = "PayloadTooLarge"

\* C13: for a response BODY || SW, the exchange succeeds with exactly BODY
\* when SW = 0x9000; otherwise it fails, and the code of the error is the
\* first two bytes of BODY, big-endian, when BODY has two bytes or more, and
\* SW when BODY is shorter.
C13_StatusAndBody ==
    (exch.pc = "done" /\ exch.response # <<>>)
        => LET n == Len(exch.response)
               body == SubSeq(exch.response, 1, n - 2)
               sw == exch.response[n - 1] * 256 + exch.response[n]
           IN  IF sw = 36864
               THEN exch.outcome.kind = "ok" /\ exch.outcome.body = body
               ELSE /\ exch.outcome.kind = "error"
                    /\ exch.outcome.code =
                        (IF Len(body) >= 2 THEN body[1] * 256 + body[2] ELSE sw)

C13_Witness ==
    /\ exch.pc = "done"
    /\ Len(exch.response) >= 4
    /\ exch.response[Len(exch.response) - 1] = 105
    /\ exch.outcome.kind = "error"
    /\ exch.outcome.code = 144 * 256


(***************************************************************************)
(* The LedgerDevice operations that take arguments: their checks, and the  *)
(* request they make.                                                      *)
(***************************************************************************)
MaxInputOutputIndex == 255
\* `offset > 4294967295`: an offset is kept as its two 16-bit halves,
\* offset = hi * Word + lo with 0 <= lo < Word, and 4294967295 = Word * Word - 1.
Word == 65536
OffsetOf(hi, lo) == [hi |-> hi, lo |-> lo]
OffsetNegative(offset) == offset.hi < 0
OffsetAboveMax(offset) == offset.hi >= Word
MaxRealOutputIndex == 3

\* A string argument, as far as the checks look at it: its length, and
\* whether all its characters are hex digits (as they are in an empty one).
Strings == [len : {0, 63, 64, 128}, hex : BOOLEAN] \ {[len |-> 0, hex |-> FALSE]}
Undefined == [len |-> -1, hex |-> FALSE]
Hex64 == [len |-> 64, hex |-> TRUE]
Hex128 == [len |-> 128, hex |-> TRUE]

isHex(value) == value.len % 2 = 0 /\ value.hex
isHex64(value) == isHex(value) /\ value.len = 64
isHex128(value) == isHex(value) /\ value.len = 128

\* if (payment_id): a string is truthy unless it is empty.
Truthy(value) == value.len > 0

Rejected == [err |-> "InvalidArgument", command |-> 0, len |-> 0]
\* The operation calls exchange with a command and the bytes it has written.
Request(command, len) == [err |-> "none", command |-> command, len |-> len]

AllHex64(keys) == \A i \in 1..Len(keys) : isHex64(keys[i])
AllHex128(sigs) == \A i \in 1..Len(sigs) : isHex128(sigs[i])

DeviceCheckKey(a) ==
    IF ~isHex64(a.keys[1]) THEN Rejected ELSE Request(CMD.CHECK_KEY, 32)

DeviceCheckScalar(a) ==
    IF ~isHex64(a.keys[1]) THEN Rejected ELSE Request(CMD.CHECK_SCALAR, 32)

DevicePrivateToPublic(a) ==
    IF ~isHex64(a.keys[1]) THEN Rejected ELSE Request(CMD.PRIVATE_TO_PUBLIC, 32)

DeviceGenerateKeyImage(a) ==
    IF ~isHex64(a.keys[1]) THEN Rejected
    ELSE IF a.index < 0 THEN Rejected
    ELSE IF ~isHex64(a.keys[2]) THEN Rejected
    ELSE Request(CMD.GENERATE_KEY_IMAGE, 32 + 4 + 32)

DeviceCompleteRingSignature(a) ==
    IF ~isHex64(a.keys[1]) THEN Rejected
    ELSE IF a.index < 0 THEN Rejected
    ELSE IF ~isHex64(a.keys[2]) THEN Rejected
    ELSE IF ~isHex64(a.keys[3]) THEN Rejected
    ELSE IF ~isHex128(a.sigs[1]) THEN Rejected
    ELSE Request(CMD.COMPLETE_RING_SIGNATURE, 32 + 4 + 32 + 32 + 64)

DeviceGenerateRingSignatures(a) ==
    IF ~isHex64(a.keys[1]) THEN Rejected
    ELSE IF a.index < 0 THEN Rejected
    ELSE IF ~isHex64(a.keys[2]) THEN Rejected
    ELSE IF ~isHex64(a.keys[3]) THEN Rejected
    ELSE IF a.realIndex < 0 THEN Rejected
    ELSE IF Len(a.list) = 0 THEN Rejected
    ELSE IF ~AllHex64(a.list) THEN Rejected
    ELSE Request(CMD.GENERATE_RING_SIGNATURES, 32 + 4 + 32 + 32 + 32 * Len(a.list) + 4)

DeviceGenerateSignature(a) ==
    IF ~isHex64(a.keys[1]) THEN Rejected ELSE Request(CMD.GENERATE_SIGNATURE, 32)

DeviceGenerateKeyDerivation(a) ==
    IF ~isHex64(a.keys[1]) THEN Rejected ELSE Request(CMD.GENERATE_KEY_DERIVATION, 32)

DeviceDerivePublicKey(a) ==
    IF ~isHex64(a.keys[1]) THEN Rejected
    ELSE IF a.index < 0 THEN Rejected
    ELSE Request(CMD.DERIVE_PUBLIC_KEY, 32 + 4)

DeviceDeriveSecretKey(a) ==
    IF ~isHex64(a.keys[1]) THEN Rejected
    ELSE IF a.index < 0 THEN Rejected
    ELSE Request(CMD.DERIVE_SECRET_KEY, 32 + 4)

DeviceCheckSignature(a) ==
    IF ~isHex64(a.keys[1]) THEN Rejected
    ELSE IF ~isHex64(a.keys[2]) THEN Rejected
    ELSE IF ~isHex128(a.sigs[1]) THEN Rejected
    ELSE Request(CMD.CHECK_SIGNATURE, 32 + 32 + 64)

DeviceCheckRingSignatures(a) ==
    IF ~isHex64(a.keys[1]) THEN Rejected
    ELSE IF ~isHex64(a.keys[2]) THEN Rejected
    ELSE IF Len(a.list) = 0 THEN Rejected
    ELSE IF Len(a.sigs) = 0 THEN Rejected
    ELSE IF Len(a.list) # Len(a.sigs) THEN Rejected
    ELSE IF ~AllHex64(a.list) THEN Rejected
    ELSE IF ~AllHex128(a.sigs) THEN Rejected
    ELSE Request(CMD.CHECK_RING_SIGNATURES, 32 + 32 + 32 * Len(a.list) + 64 * Len(a.sigs))

DeviceStartTransactionAnyPaymentId(a) ==
    IF a.inCount > MaxTxCount \/ a.inCount < 0 THEN Rejected
    ELSE IF a.outCount > MaxTxCount \/ a.outCount < 0 THEN Rejected
    ELSE IF ~isHex64(a.keys[1]) THEN Rejected
    ELSE Request(CMD.TX_START,
                 8 + 1 + 1 + 32 + (IF Truthy(a.paymentId) THEN 1 + 32 ELSE 1))

DeviceStartTransaction(a) ==
    IF a.inCount > MaxTxCount \/ a.inCount < 0 THEN Rejected
    ELSE IF a.outCount > MaxTxCount \/ a.outCount < 0 THEN Rejected
    ELSE IF ~isHex64(a.keys[1]) THEN Rejected
    ELSE IF Truthy(a.paymentId) /\ ~isHex64(a.paymentId) THEN Rejected
    ELSE Request(CMD.TX_START,
                 8 + 1 + 1 + 32 + (IF Truthy(a.paymentId) THEN 1 + 32 ELSE 1))

DeviceLoadTransactionInput(a) ==
    IF ~isHex64(a.keys[1]) THEN Rejected
    ELSE IF a.index > MaxInputOutputIndex \/ a.index < 0 THEN Rejected
    ELSE IF a.amount > MaximumOutputAmount \/ a.amount < 0 THEN Rejected
    ELSE IF Len(a.list) # RingSize THEN Rejected
    ELSE IF ~AllHex64(a.list) THEN Rejected
    ELSE IF Len(a.offsets) # RingSize THEN Rejected
    ELSE IF \E i \in 1..Len(a.offsets) : OffsetNegative(a.offsets[i]) \/ OffsetAboveMax(a.offsets[i])
        THEN Rejected
    ELSE IF a.realIndex > MaxRealOutputIndex \/ a.realIndex < 0 THEN Rejected
    ELSE Request(CMD.TX_LOAD_INPUT,
                 32 + 1 + 8 + 32 * Len(a.list) + 4 * Len(a.offsets) + 1)

DeviceLoadTransactionOutput(a) ==
    IF a.amount < 0 \/ a.amount > MaximumOutputAmount THEN Rejected
    ELSE IF ~isHex64(a.keys[1]) THEN Rejected
    ELSE Request(CMD.TX_LOAD_OUTPUT, 8 + 32)

Operation(a) ==
    CASE a.op = "checkKey" -> DeviceCheckKey(a)
      [] a.op = "checkScalar" -> DeviceCheckScalar(a)
      [] a.op = "privateToPublic" -> DevicePrivateToPublic(a)
      [] a.op = "generateKeyImage" -> DeviceGenerateKeyImage(a)
      [] a.op = "completeRingSignature" -> DeviceCompleteRingSignature(a)
      [] a.op = "generateRingSignatures" -> DeviceGenerateRingSignatures(a)
      [] a.op = "generateSignature" -> DeviceGenerateSignature(a)
      [] a.op = "generateKeyDerivation" -> DeviceGenerateKeyDerivation(a)
      [] a.op = "derivePublicKey" -> DeviceDerivePublicKey(a)
      [] a.op = "deriveSecretKey" -> DeviceDeriveSecretKey(a)
      [] a.op = "checkSignature" -> DeviceCheckSignature(a)
      [] a.op = "checkRingSignatures" -> DeviceCheckRingSignatures(a)
      [] a.op = "startTransaction" -> DeviceStartTransaction(a)
      [] a.op = "loadTransactionInput" -> DeviceLoadTransactionInput(a)
      [] OTHER -> DeviceLoadTransactionOutput(a)

\* Bound: the key and signature lists a caller passes have up to MaxList
\* members.
MaxList == 2

\* The arguments of an operation, all well-formed.
WellFormed(op, nKeys, nList, nSigs, nOffsets, has) ==
    [op |-> op, keys |-> Repeat(Hex64, nKeys), list |-> Repeat(Hex64, nList),
     sigs |-> Repeat(Hex128, nSigs), offsets |-> Repeat(OffsetOf(0, 0), nOffsets),
     index |-> 0, realIndex |-> 0, inCount |-> 1, outCount |-> 1, amount |-> 1,
     paymentId |-> Undefined, has |-> has]

WellFormedArgs ==
    {WellFormed(op, 1, 0, 0, 0, {}) :
        op \in {"checkKey", "checkScalar", "privateToPublic", "generateSignature",
                "generateKeyDerivation"}}
    \cup {WellFormed(op, 1, 0, 0, 0, {"index"}) :
        op \in {"derivePublicKey", "deriveSecretKey"}}
    \cup {WellFormed("generateKeyImage", 2, 0, 0, 0, {"index"}),
          WellFormed("completeRingSignature", 3, 0, 1, 0, {"index"}),
          WellFormed("checkSignature", 2, 0, 1, 0, {}),
          WellFormed("startTransaction", 1, 0, 0, 0, {"counts", "paymentId"}),
          WellFormed("loadTransactionInput", 1, RingSize, 0, RingSize,
                     {"index", "realIndex", "amount"}),
          WellFormed("loadTransactionOutput", 1, 0, 0, 0, {"amount"})}
    \cup {WellFormed("generateRingSignatures", 3, n, 0, 0, {"index", "realIndex"}) :
            n \in 0..MaxList}
    \cup {WellFormed("checkRingSignatures", 2, n, m, 0, {}) :
            n \in 0..MaxList, m \in 0..MaxList}

\* The arguments a caller may pass: well-formed ones, and the same with one
\* argument replaced by another value of its type.
Variants(b) ==
    {b}
    \cup {[b EXCEPT !.keys[i] = v] : i \in DOMAIN b.keys, v \in Strings}
    \cup {[b EXCEPT !.list[i] = v] : i \in DOMAIN b.list, v \in Strings}
    \cup {[b EXCEPT !.sigs[i] = v] : i \in DOMAIN b.sigs, v \in Strings}
    \cup {[b EXCEPT !.offsets[i] = v] :
            i \in DOMAIN b.offsets,
            v \in {OffsetOf(-1, Word - 1), OffsetOf(0, 1), OffsetOf(Word - 1, Word - 1),
                   OffsetOf(Word, 0)}}
    \cup {[b EXCEPT !.index = v] :
            v \in IF "index" \in b.has
                  THEN {-1, 1, MaxInputOutputIndex, MaxInputOutputIndex + 1} ELSE {}}
    \cup {[b EXCEPT !.realIndex = v] :
            v \in IF "realIndex" \in b.has
                  THEN {-1, MaxRealOutputIndex, MaxRealOutputIndex + 1} ELSE {}}
    \cup {[b EXCEPT !.inCount = v] :
            v \in IF "counts" \in b.has THEN {-1, 0, MaxTxCount, MaxTxCount + 1} ELSE {}}
    \cup {[b EXCEPT !.outCount = v] :
            v \in IF "counts" \in b.has THEN {-1, 0, MaxTxCount, MaxTxCount + 1} ELSE {}}
    \cup {[b EXCEPT !.amount = v] :
            v \in IF "amount" \in b.has
                  THEN {-1, 0, MaximumOutputAmount, MaximumOutputAmount + 1} ELSE {}}
    \cup {[b EXCEPT !.paymentId = v] :
            v \in IF "paymentId" \in b.has THEN Strings ELSE {}}

OperationArgs == UNION {Variants(b) : b \in WellFormedArgs}

InitOperations ==
    /\ \E a \in OperationArgs : exch = [IdleExchange EXCEPT !.op = a.op, !.args = a]
    /\ fn = NoApplication
    /\ NoCalls

\* A caller invokes an operation: its checks, then exchange with the bytes it
\* wrote (the model keeps their number, not their values).
CallOperation ==
    /\ exch.pc = "idle"
    /\ exch.op # "exchange"
    /\ LET q == Operation(exch.args)
       IN  exch' = IF q.err # "none" THEN Thrown(exch, q.err, 0)
                   ELSE ExchangeSend([exch EXCEPT !.command = q.command,
                                                  !.hasData = TRUE,
                                                  !.data = DataOf(q.len)])
    /\ UNCHANGED <<fn, todo, call, helper>>

NextOperations == CallOperation \/ OnTransportResult

SpecOperations == InitOperations /\ [][NextOperations]_vars

NotHex64(v) == ~(v.len = 64 /\ v.hex)
NotHex128(v) == ~(v.len = 128 /\ v.hex)

\* A malformed argument other than the payment id, as the claim lists them.
Malformed(a) ==
    \/ \E i \in DOMAIN a.keys : NotHex64(a.keys[i])
    \/ \E i \in DOMAIN a.list : NotHex64(a.list[i])
    \/ \E i \in DOMAIN a.sigs : NotHex128(a.sigs[i])
    \/ a.index < 0
    \/ a.realIndex < 0
    \/ a.op = "loadTransactionInput" /\ a.index \notin 0..255
    \/ \E i \in DOMAIN a.offsets : a.offsets[i].hi \notin 0..65535
    \/ a.inCount \notin 0..90
    \/ a.outCount \notin 0..90

FailedBeforeSend ==
    /\ exch.outcome.kind = "error"
    /\ exch.events = <<>>
    /\ exch.handed = <<>>

Invoked == exch.pc \notin {"none", "idle"} /\ exch.op # "exchange"

\* C14 as stated: an operation called with a malformed argument, a payment
\* id that is not 64 hex characters included, fails before any send event
\* and before the transport is called.
C14_AsStated ==
    (Invoked /\ (\/ Malformed(exch.args)
                 \/ exch.args.paymentId # Undefined /\ NotHex64(exch.args.paymentId)))
        => FailedBeforeSend

\* C14: an operation called with a malformed argument fails before any send
\* event and before the transport is called, where a payment id is malformed
\* when it is not empty and not 64 hex characters (startTransaction takes an
\* empty payment id as none).
C14_MalformedRejected ==
    (Invoked /\ (\/ Malformed(exch.args)
                 \/ exch.args.paymentId.len > 0 /\ NotHex64(exch.args.paymentId)))
        => FailedBeforeSend

C14_Witness ==
    /\ Invoked
    /\ exch.op = "loadTransactionInput"
    /\ \E i \in DOMAIN exch.args.offsets : exch.args.offsets[i] = [hi |-> 65536, lo |-> 0]
    /\ FailedBeforeSend


(***************************************************************************)
(* absoluteToRelativeOffsets and relativeToAbsoluteOffsets.                *)
(***************************************************************************)
\* Bounds: a caller passes up to MaxOffsetCount offsets of 0..MaxOffsetValue.
MaxOffsetCount == 4
MaxOffsetValue == 5

RECURSIVE CommonAbsoluteToRelativeOffsets(_)
\* Common.absoluteToRelativeOffsets: the first element is kept, every later
\* one becomes its difference from the one before it.
CommonAbsoluteToRelativeOffsets(offsets) ==
    IF Len(offsets) <= 1 THEN offsets
    ELSE Append(CommonAbsoluteToRelativeOffsets(SubSeq(offsets, 1, Len(offsets) - 1)),
                offsets[Len(offsets)] - offsets[Len(offsets) - 1])

RECURSIVE CommonRelativeToAbsoluteOffsets(_)
\* Common.relativeToAbsoluteOffsets: the prefix sums.
CommonRelativeToAbsoluteOffsets(offsets) ==
    IF Len(offsets) <= 1 THEN offsets
    ELSE LET before == CommonRelativeToAbsoluteOffsets(SubSeq(offsets, 1, Len(offsets) - 1))
         IN  Append(before, before[Len(before)] + offsets[Len(offsets)])

\* BigInteger.toJSNumber() of every element, pushed to a new array.
ToJSNumbers(offsets) == [i \in 1..Len(offsets) |-> offsets[i]]

absoluteToRelativeOffsets(offsets) ==
    ToJSNumbers(CommonAbsoluteToRelativeOffsets(offsets))

relativeToAbsoluteOffsetsRelativizes(offsets) ==
    ToJSNumbers(CommonAbsoluteToRelativeOffsets(offsets))

relativeToAbsoluteOffsets(offsets) ==
    ToJSNumbers(CommonRelativeToAbsoluteOffsets(offsets))

IsAscending(s) == \A i \in 1..(Len(s) - 1) : s[i] <= s[i + 1]

AscendingOffsets ==
    {a \in SeqsUpTo(0..MaxOffsetValue, MaxOffsetCount) : IsAscending(a)}
    \cup {<<5, 9, 14, 14, 20>>}

InitOffsets ==
    /\ \E a \in AscendingOffsets :
        fn = [pc |-> "idle", name |-> "offsets", absolute |-> a,
              relative |-> <<>>, back |-> <<>>]
    /\ exch = NoExchange
    /\ NoCalls

\* A caller converts its absolute offsets.
CallAbsoluteToRelativeOffsets ==
    /\ fn.pc = "idle"
    /\ fn.name = "offsets"
    /\ fn' = [fn EXCEPT !.pc = "relative",
                        !.relative = absoluteToRelativeOffsets(fn.absolute)]
    /\ UNCHANGED <<exch, todo, call, helper>>

\* The caller converts the relative offsets back.
CallRelativeToAbsoluteOffsets ==
    /\ fn.pc = "relative"
    /\ fn' = [fn EXCEPT !.pc = "done",
                        !.back = relativeToAbsoluteOffsets(fn.relative)]
    /\ UNCHANGED <<exch, todo, call, helper>>

NextOffsets == CallAbsoluteToRelativeOffsets \/ CallRelativeToAbsoluteOffsets

SpecOffsets == InitOffsets /\ [][NextOffsets]_vars

\* C15: for ascending absolute offsets a, absoluteToRelativeOffsets(a) keeps
\* the first element and replaces every later one by its difference from the
\* previous one, and relativeToAbsoluteOffsets gives a back; [5, 9, 14, 14,
\* 20] becomes [5, 4, 5, 0, 6].
C15_OffsetRoundTrip ==
    /\ fn.pc \in {"relative", "done"} =>
        /\ Len(fn.relative) = Len(fn.absolute)
        /\ \A i \in 1..Len(fn.absolute) :
            fn.relative[i] = IF i = 1 THEN fn.absolute[1]
                             ELSE fn.absolute[i] - fn.absolute[i - 1]
        /\ fn.absolute = <<5, 9, 14, 14, 20>> => fn.relative = <<5, 4, 5, 0, 6>>
    /\ fn.pc = "done" => fn.back = fn.absolute

C15_Witness ==
    /\ fn.pc = "done"
    /\ fn.absolute = <<5, 9, 14, 14, 20>>
    /\ fn.back = <<5, 9, 14, 14, 20>>

(***************************************************************************)
(* generateTransactionOutputs.                                             *)
(***************************************************************************)
\* Bounds: amounts of 0..MaxAmount, and a configured maximumOutputAmount of
\* 1..MaxConfigured or one of the powers of ten in PowersOfTen.
MaxAmount == 120
MaxConfigured == 30
PowersOfTen == {100, 100000}

RECURSIVE Digits(_)
\* amount.toString().split('').reverse(): the decimal digits, lowest first.
Digits(n) == IF n < 10 THEN <<n>> ELSE <<n % 10>> \o Digits(n \div 10)

RECURSIVE SplitAmount(_, _)
\* while (splitAmt >= maximum) { push maximum; splitAmt -= maximum }
SplitAmount(splitAmt, maximum) ==
    IF splitAmt >= maximum
    THEN <<maximum>> \o SplitAmount(splitAmt - maximum, maximum)
    ELSE <<>>

RECURSIVE OutputsFrom(_, _, _)
\* The loop over amountChars from position i (counted from 0) on.
OutputsFrom(amountChars, i, maximum) ==
    IF i >= Len(amountChars) THEN <<>>
    ELSE LET amt == amountChars[i + 1] * 10^i
         IN  (IF amt > maximum THEN SplitAmount(amt, maximum)
              ELSE IF amt # 0 THEN <<amt>>
              ELSE <<>>)
             \o OutputsFrom(amountChars, i + 1, maximum)

\* The amounts of the outputs generateTransactionOutputs returns.
generateTransactionOutputs(amount, maximum) ==
    OutputsFrom(Digits(amount), 0, maximum)

InitOutputs ==
    /\ \E amount \in 0..MaxAmount : \E maximum \in 1..MaxConfigured \cup PowersOfTen :
        fn = [pc |-> "idle", name |-> "generateTransactionOutputs",
              amount |-> amount, maximumOutputAmount |-> maximum, result |-> <<>>]
    /\ exch = NoExchange
    /\ NoCalls

\* A caller asks for the outputs of an amount.
CallGenerateTransactionOutputs ==
    /\ fn.pc = "idle"
    /\ fn.name = "generateTransactionOutputs"
    /\ fn' = [fn EXCEPT !.pc = "done",
                        !.result = generateTransactionOutputs(fn.amount,
                                                              fn.maximumOutputAmount)]
    /\ UNCHANGED <<exch, todo, call, helper>>

SpecOutputs == InitOutputs /\ [][CallGenerateTransactionOutputs]_vars

\* d * 10^k with 1 <= d <= 9.
IsPretty(n) == \E d \in 1..9 : \E k \in 0..9 : n = d * 10^k

\* C16: for every amount N >= 0 and every configured maximumOutputAmount the
\* amounts returned sum to N, each is d * 10^k with 1 <= d <= 9 or equal to
\* maximumOutputAmount, and none is zero or exceeds maximumOutputAmount.
C16_AsStated ==
    fn.pc = "done" =>
        /\ SumSeq(fn.result) = fn.amount
        /\ \A i \in 1..Len(fn.result) :
            /\ IsPretty(fn.result[i]) \/ fn.result[i] = fn.maximumOutputAmount
            /\ fn.result[i] # 0
            /\ fn.result[i] <= fn.maximumOutputAmount


(***************************************************************************)
(* prepareTransactionInputs.                                               *)
(***************************************************************************)
\* Bounds: up to MaxPrepared inputs, each with a pool of up to MaxPool random
\* outputs; global indexes of 0..MaxGlobalIndex; a mixin of 0..MaxMixin.
MaxPrepared == 2
MaxPool == 4
MaxGlobalIndex == 2
MaxMixin == 3

RealOutputs == [key : {"real"}, globalIndex : 0..MaxGlobalIndex]

InitPrepare ==
    /\ \E n \in 1..MaxPrepared :
       \E first \in RealOutputs :
       \E indexes \in SeqsUpTo(0..MaxGlobalIndex, MaxPool) :
       \E pools \in {n - 1, n} :
       \E mixin \in 0..MaxMixin :
        fn = [pc |-> "idle", name |-> "prepareTransactionInputs",
              inputs |-> [i \in 1..n |->
                    [first EXCEPT !.globalIndex = (@ + i - 1) % (MaxGlobalIndex + 1)]],
              randomOutputs |-> [i \in 1..pools |-> PoolOf(indexes)],
              mixin |-> mixin,
              result |-> [err |-> "none", inputs |-> <<>>]]
    /\ exch = NoExchange
    /\ NoCalls

\* createTransaction prepares its inputs.
CallPrepareTransactionInputs ==
    /\ fn.pc = "idle"
    /\ fn.name = "prepareTransactionInputs"
    /\ fn' = [fn EXCEPT !.pc = "done",
                        !.result = prepareTransactionInputs(fn.inputs, fn.randomOutputs,
                                                            fn.mixin)]
    /\ UNCHANGED <<exch, todo, call, helper>>

SpecPrepare == InitPrepare /\ [][CallPrepareTransactionInputs]_vars

Prepared == fn.pc = "done" /\ fn.result.err = "none"

\* The ring of the i-th input: mixin + 1 members, no decoy with the real
\* output's globalIndex, and the real output at position realOutputIndex.
RingHoldsReal(i) ==
    LET ring == fn.result.inputs[i].outputs
        at == fn.result.inputs[i].realOutputIndex + 1
    IN  /\ Len(ring) = fn.mixin + 1
        /\ at \in 1..Len(ring)
        /\ ring[at].key = "real"
        /\ ring[at].index = fn.inputs[i].globalIndex
        /\ \A j \in 1..Len(ring) :
            j # at => ring[j].key # "real" /\ ring[j].index # fn.inputs[i].globalIndex

\* C17 as stated: every prepared input has a ring of mixin + 1 members, no
\* decoy has the real output's globalIndex, the ring's indexes are strictly
\* ascending, and the member at realOutputIndex is the real output.
C17_AsStated ==
    Prepared =>
        \A i \in 1..Len(fn.result.inputs) :
            /\ RingHoldsReal(i)
            /\ \A j \in 1..fn.mixin :
                fn.result.inputs[i].outputs[j].index
                    < fn.result.inputs[i].outputs[j + 1].index

\* Two random outputs of the i-th pool have the same globalIndex.
PoolRepeats(i) ==
    \E p \in 1..Len(fn.randomOutputs[i]) : \E q \in 1..Len(fn.randomOutputs[i]) :
        p # q /\ fn.randomOutputs[i][p].globalIndex = fn.randomOutputs[i][q].globalIndex

\* C17: every prepared input has a ring of mixin + 1 members, no decoy has
\* the real output's globalIndex, the member at realOutputIndex is the real
\* output, and the ring's indexes are ascending: strictly, unless the pool
\* of random outputs holds the same globalIndex twice.
C17_RingPrepared ==
    Prepared =>
        \A i \in 1..Len(fn.result.inputs) :
            /\ RingHoldsReal(i)
            /\ \A j \in 1..fn.mixin :
                /\ fn.result.inputs[i].outputs[j].index
                    <= fn.result.inputs[i].outputs[j + 1].index
                /\ ~PoolRepeats(i) =>
                    fn.result.inputs[i].outputs[j].index
                        < fn.result.inputs[i].outputs[j + 1].index

C17_Witness ==
    /\ Prepared
    /\ Len(fn.result.inputs) = 2
    /\ fn.mixin = 2
    /\ ~PoolRepeats(1)
    /\ fn.result.inputs[1].realOutputIndex = 1

(***************************************************************************)
(* The order of the inputs and outputs loaded by createTransaction, and    *)
(* its payment id checks.                                                  *)
(***************************************************************************)
\* What the TX_LOAD_INPUT / TX_LOAD_OUTPUT commands of call c carried, in the
\* order they were sent.
LoadedBy(c, cmd) ==
    LET IsCmd(l) == l.command = cmd
        sent == SelectSeq(call[c].loaded, IsCmd)
    IN  [i \in 1..Len(sent) |-> sent[i].what]

\* s holds the members of t, each as many times as t does.
IsPermutation(s, t) ==
    /\ Len(s) = Len(t)
    /\ \A i \in 1..Len(t) : Count(s, t[i]) = Count(t, t[i])

\* The inputs of call c were put in their loading order, which is the order
\* the TX_LOAD_INPUT commands follow.
InputsOrdered(c) ==
    /\ LET given == TransactionInputsOf(todo[c])
       IN  IsPermutation(call[c].transactionInputs, given)
    /\ IsPrefix(LoadedBy(c, "TX_LOAD_INPUT"), call[c].transactionInputs)

\* C18 as stated: the TX_LOAD_INPUT commands of a build are sent in strictly
\* descending order of their inputs' key images, an order fixed before the
\* first of them is sent.
C18_AsStated ==
    \A c \in Calls : IsBuild(c) /\ call[c].inTry =>
        /\ InputsOrdered(c)
        /\ \A i \in 1..(Len(call[c].transactionInputs) - 1) :
            call[c].transactionInputs[i].keyImage
                > call[c].transactionInputs[i + 1].keyImage

\* The loading order of a build's inputs at every point of its try block:
\* descending by key image, two inputs having the same place only when their
\* key images are equal.
C18_Descending ==
    \A c \in Calls : IsBuild(c) /\ call[c].inTry =>
        /\ InputsOrdered(c)
        /\ \A i \in 1..(Len(call[c].transactionInputs) - 1) :
            call[c].transactionInputs[i].keyImage
                >= call[c].transactionInputs[i + 1].keyImage
        /\ \A i \in 1..(Len(LoadedBy(c, "TX_LOAD_INPUT")) - 1) :
            \/ LoadedBy(c, "TX_LOAD_INPUT")[i].keyImage
                    > LoadedBy(c, "TX_LOAD_INPUT")[i + 1].keyImage
            \/ /\ LoadedBy(c, "TX_LOAD_INPUT")[i].keyImage
                    = LoadedBy(c, "TX_LOAD_INPUT")[i + 1].keyImage
               /\ \E j, k \in 1..Len(todo[c].keyImages) :
                    j # k /\ todo[c].keyImages[j] = todo[c].keyImages[k]

\* No step of a build that has entered its try block changes the order.
C18_Fixed ==
    \A c \in Calls : IsBuild(c) /\ call[c].inTry =>
        call'[c].transactionInputs = call[c].transactionInputs

\* C18: in every build the TX_LOAD_INPUT commands are sent in descending
\* order of their inputs' key images (compared as big integers), strictly
\* descending when the key images of the inputs are pairwise different, and
\* that order is fixed before the first TX_LOAD_INPUT is sent.
C18_InputOrder == []C18_Descending /\ [][C18_Fixed]_vars

\* Both inputs of a build were loaded, the one passed second first.
C18_Witness ==
    /\ todo[1].op = "createTransaction"
    /\ todo[1].keyImages = <<1, 2>>
    /\ todo[1].inputs = <<1, 2>>
    /\ Len(LoadedBy(1, "TX_LOAD_INPUT")) = 2
    /\ LoadedBy(1, "TX_LOAD_INPUT")[1].amount = 2
    /\ LoadedBy(1, "TX_LOAD_INPUT")[1].keyImage = 2
    /\ LoadedBy(1, "TX_LOAD_INPUT")[2].amount = 1
    /\ LoadedBy(1, "TX_LOAD_INPUT")[2].keyImage = 1

PaymentIdConflict(a) ==
    \/ \E i, j \in 1..Len(a.destinations) :
        /\ PaymentIdOf(a.destinations[i]) # "none"
        /\ PaymentIdOf(a.destinations[j]) # "none"
        /\ PaymentIdOf(a.destinations[i]) # PaymentIdOf(a.destinations[j])
    \/ \E i \in 1..Len(a.destinations) :
        /\ PaymentIdOf(a.destinations[i]) # "none"
        /\ a.paymentId # "none"
        /\ PaymentIdOf(a.destinations[i]) # a.paymentId

PaymentIdErrors == {"DifferingIntegratedAddresses", "PaymentIdMismatch"}

\* The call has been started, and it failed without handing anything to the
\* transport.
FailedBeforeIO(c) ==
    /\ call[c].pc = "done"
    /\ call[c].result.kind = "error"
    /\ call[c].log = <<>>

EarlierChecksPass(a) ==
    /\ ~a.extraData
    /\ a.randomSets = Len(a.inputs) \/ a.mixin = 0
    /\ a.randomSets = 0 \/ a.randomOutputs >= a.mixin
    /\ \A i \in 1..Len(a.outputs) :
        a.outputs[i] > 0 /\ a.outputs[i] <= MaximumOutputAmount

Started(c) == IsBuild(c) /\ call[c].pc # "idle"

Change(a) == SumSeq(a.inputs) - SumSeq(a.outputs)

Overspent(a) == SumSeq(a.outputs) > SumSeq(a.inputs)

OutputAmountsInRange(a) ==
    \A i \in 1..Len(a.outputs) :
        a.outputs[i] > 0 /\ a.outputs[i] <= MaximumOutputAmount

InputAmountsPositive(a) == \A i \in 1..Len(a.inputs) : a.inputs[i] > 0

\* Every check createTransaction makes ahead of the comparison of the sums
\* passes.
ChecksBeforeFundsPass(a) ==
    /\ EarlierChecksPass(a)
    /\ ~PaymentIdConflict(a)
    /\ InputAmountsPositive(a)

C22_FeeAgainstChange ==
    \A c \in Calls :
        Started(c) /\ FeeAmount(todo[c]) > 0 /\ Change(todo[c]) < FeeAmount(todo[c]) =>
            /\ ~FeePerByte(todo[c]) => FailedBeforeIO(c)
            /\ (/\ FeePerByte(todo[c])
                /\ ChecksBeforeFundsPass(todo[c])
                /\ ~Overspent(todo[c]))
                    => call[c].log # <<>> /\ Head(call[c].log) = "RANDOM_KEY_PAIR"

\* A call in fixed-fee mode with enough funds for the outputs, not for the
\* fee, failed on the comparison of the change with the fee.
C22_Witness ==
    /\ Started(1)
    /\ ~FeePerByte(todo[1])
    /\ Change(todo[1]) >= 0 /\ Change(todo[1]) < FeeAmount(todo[1])
    /\ FailedBeforeIO(1)
    /\ call[1].result.err = "NotAllSpent"

\* A zero-fee build with fewer than 12 inputs, or with fewer inputs than
\* fusionMinInOutCountRatio times its outputs.
FusionUnmet(a) ==
    /\ FeeAmount(a) = 0
    /\ \/ Len(a.inputs) < 12
       \/ /\ Len(a.outputs) > 0
          /\ Len(a.inputs) < a.config.fusionMinInOutCountRatio * Len(a.outputs)

\* C23: a zero-fee (fusion) createTransaction with fewer than 12 inputs, or
\* with inputs / outputs below fusionMinInOutCountRatio, never sends TX_START
\* and does not succeed: when it ends it has failed.
C23_FusionPreconditions ==
    \A c \in Calls : Started(c) /\ FusionUnmet(todo[c]) =>
        /\ "TX_START" \notin Range(call[c].log)
        /\ Done(c) => Failed(c)

\* A zero-fee build with 12 inputs and too many outputs for them has failed
\* on the ratio.
C23_Witness ==
    /\ Started(1)
    /\ FeeAmount(todo[1]) = 0
    /\ Len(todo[1].inputs) = 12
    /\ Failed(1)
    /\ call[1].result.err = "FusionRatio"

C26_AsStated ==
    \A c \in Calls :
        (/\ IsBuild(c)
         /\ todo[c].deviceState # INACTIVE
         /\ "TX_START" \in Range(call[c].log))
            => \E i, j \in 1..Len(call[c].log) :
                /\ i < j
                /\ call[c].log[i] = "TX_RESET"
                /\ call[c].log[j] = "TX_START"

\* A precondition the validation step is said to check fails.
ListedPreconditionFails(a) ==
    \/ a.extraData
    \/ ~OutputAmountsInRange(a)
    \/ ~InputAmountsPositive(a)
    \/ PaymentIdConflict(a)
    \/ Overspent(a)
    \/ ~FeePerByte(a) /\ FeeAmount(a) > 0 /\ Change(a) < FeeAmount(a)

\* C28 as stated: createTransaction sends no command at all when a
\* precondition of the validation step fails, an unmet fusion constraint of
\* a zero-fee build included.
C28_AsStated ==
    \A c \in Calls :
        Started(c) /\ (ListedPreconditionFails(todo[c]) \/ FusionUnmet(todo[c]))
            => call[c].log = <<>>

\* C28: createTransaction fails without sending any command when extraData
\* is supplied, an output amount is <= 0 or above maximumOutputAmount, an
\* input amount is <= 0, payment ids conflict, the inputs do not cover the
\* outputs, or the fee exceeds the change in fixed-fee mode; with an unmet
\* fusion constraint of a zero-fee build it sends at most RANDOM_KEY_PAIR.
C28_NothingSent ==
    \A c \in Calls : Started(c) =>
        /\ ListedPreconditionFails(todo[c]) => FailedBeforeIO(c)
        /\ FusionUnmet(todo[c]) => IsPrefix(call[c].log, <<"RANDOM_KEY_PAIR">>)

\* A zero-fee build on too few inputs failed after its RANDOM_KEY_PAIR
\* request had been answered.
C28_Witness ==
    /\ Started(1)
    /\ FusionUnmet(todo[1])
    /\ ~ListedPreconditionFails(todo[1])
    /\ Failed(1)
    /\ call[1].result.err = "FusionInputs"
    /\ call[1].log = <<"RANDOM_KEY_PAIR">>

(***************************************************************************)
(* Unsupported operations.                                                 *)
(***************************************************************************)
NoTxCommand(c) == \A i \in 1..Len(call[c].log) : call[c].log[i] \notin TxCommands

\* Call c is one that must fail: one of the three methods, createTransaction
\* with extra data, or isOurTransactionOutput with generatePartial, called
\* directly or by the scan.
MustFail(c) ==
    \/ todo[c].op \in UnsupportedOperations
    \/ todo[c].op = "createTransaction" /\ todo[c].extraData
    \/ todo[c].op \in {"isOurTransactionOutput", "scanChild"} /\ todo[c].generatePartial

\* The calls that must fail do fail when they end, and no call sends a
\* transaction-construction command.
UnsupportedCallsFail ==
    \A c \in Calls :
        /\ MustFail(c) /\ Done(c) => Failed(c)
        /\ todo[c].op \in UnsupportedOperations /\ call[c].pc # "idle"
            => Failed(c) /\ call[c].log = <<>>
        /\ todo[c].op = "createTransaction" /\ todo[c].extraData /\ call[c].pc # "idle"
            => Failed(c) /\ call[c].log = <<>>
        /\ todo[c].op # "none" => NoTxCommand(c)

\* C24 as stated: createTransactionStructure, prepareTransaction and
\* completeTransaction always fail, createTransaction with extraData fails,
\* isOurTransactionOutput and scanTransactionOutputs with generatePartial
\* fail, and no TX_* command is sent in any of these cases.
C24_AsStated ==
    /\ UnsupportedCallsFail
    /\ scan.generatePartial /\ scan.pc = "done" => scan.result.kind = "error"

\* C24: createTransactionStructure, prepareTransaction and
\* completeTransaction always fail, createTransaction with extraData fails,
\* isOurTransactionOutput with generatePartial fails, scanTransactionOutputs
\* with generatePartial fails when it is given at least one output, and no
\* TX_* command is sent in any of these cases.
C24_Unsupported ==
    /\ UnsupportedCallsFail
    /\ (scan.generatePartial /\ scan.pc = "done" /\ Len(scan.outputs) > 0)
            => scan.result.kind = "error"

\* A scan of one output with generatePartial has failed as not supported,
\* after the keys had been fetched.
C24_Witness ==
    /\ scan.generatePartial
    /\ Len(scan.outputs) = 1
    /\ scan.pc = "done"
    /\ scan.result = [kind |-> "error", err |-> "NotSupported"]
    /\ m_fetched

(***************************************************************************)
(* calculateMinimumTransactionFee.                                         *)
(***************************************************************************)
\* Bounds: transaction sizes of 0..MaxTxSize bytes (and 300), chunk sizes of
\* 1..MaxChunkSize (and 256), fees per byte of 1..MaxFeePerByte, and up to
\* MaxFeeCalls calls on one helper.
MaxTxSize == 6
MaxChunkSize == 3
MaxFeePerByte == 2
MaxFeeCalls == 2

TxSizes == 0..MaxTxSize \cup {300}
ChunkSizes == 1..MaxChunkSize \cup {256}

\* Math.ceil(a / b) for a >= 0 and b > 0.
Ceil(a, b) == IF a % b = 0 THEN a \div b ELSE (a \div b) + 1

\* chunks * feePerByteChunkSize * feePerByte
calculateMinimumTransactionFeeFloors(txSize, feePerByteChunkSize, feePerByte) ==
    (txSize \div feePerByteChunkSize) * feePerByteChunkSize * feePerByte

calculateMinimumTransactionFee(txSize, feePerByteChunkSize, feePerByte) ==
    Ceil(txSize, feePerByteChunkSize) * feePerByteChunkSize * feePerByte

InitMinimumFee ==
    /\ \E chunk \in ChunkSizes, perByte \in 1..MaxFeePerByte :
        fn = [pc |-> "idle", name |-> "calculateMinimumTransactionFee",
              feePerByteChunkSize |-> chunk, feePerByte |-> perByte,
              calls |-> <<>>]
    /\ exch = NoExchange
    /\ NoCalls

\* A caller asks for the minimum fee of a transaction size.
CallCalculateMinimumTransactionFee ==
    /\ fn.name = "calculateMinimumTransactionFee"
    /\ Len(fn.calls) < MaxFeeCalls
    /\ \E txSize \in TxSizes :
        fn' = [fn EXCEPT
                !.pc = "done",
                !.calls = Append(@,
                    [txSize |-> txSize,
                     fee |-> calculateMinimumTransactionFee(
                                txSize, fn.feePerByteChunkSize, fn.feePerByte)])]
    /\ UNCHANGED <<exch, todo, call, helper>>

SpecMinimumFee == InitMinimumFee /\ [][CallCalculateMinimumTransactionFee]_vars

\* C27: calculateMinimumTransactionFee(size) is the number of chunks needed
\* to hold size bytes (the least k with k * feePerByteChunkSize >= size)
\* times feePerByteChunkSize times feePerByte; so it is a multiple of
\* feePerByteChunkSize * feePerByte, at least size * feePerByte, and
\* non-decreasing in size.
C27_MinimumFee ==
    fn.pc = "done" =>
        /\ \A i \in 1..Len(fn.calls) :
            /\ \E k \in 0..fn.calls[i].txSize :
                /\ k * fn.feePerByteChunkSize >= fn.calls[i].txSize
                /\ (k - 1) * fn.feePerByteChunkSize < fn.calls[i].txSize
                /\ fn.calls[i].fee = k * fn.feePerByteChunkSize * fn.feePerByte
            /\ fn.calls[i].fee % (fn.feePerByteChunkSize * fn.feePerByte) = 0
            /\ fn.calls[i].fee >= fn.calls[i].txSize * fn.feePerByte
        /\ \A i, j \in 1..Len(fn.calls) :
            fn.calls[i].txSize <= fn.calls[j].txSize
                => fn.calls[i].fee <= fn.calls[j].fee

\* The fee of 300 bytes in chunks of 256 is that of two chunks, and the fee
\* of a smaller size asked for beside it is not larger.
C27_Witness ==
    /\ fn.pc = "done"
    /\ fn.feePerByteChunkSize = 256
    /\ Len(fn.calls) = 2
    /\ fn.calls[1].txSize = 300
    /\ fn.calls[1].fee = 512 * fn.feePerByte
    /\ fn.calls[2].txSize < 300

\* The kinds of the events emitted so far.
EventKinds == [i \in 1..Len(exch.events) |-> exch.events[i][1]]

\* C30: an exchange that passes its local checks emits exactly one send
\* event, before the transport is called; when the transport returns, exactly
\* one receive event follows, before the status word is tested and so
\* whatever the status is; when the transport itself fails, no receive event
\* is emitted.
C30_SendAndReceiveEvents ==
    (exch.op = "exchange" /\ exch.handed # <<>>)
        => /\ Len(exch.handed) = 1
           /\ exch.events[1] = <<"send", exch.handed[1]>>
           /\ CASE exch.pc = "sent" ->
                    /\ EventKinds = <<"send">>
                    /\ exch.steps = <<"send", "transport">>
                [] exch.pc = "done" /\ exch.outcome.err = "TransportError" ->
                    /\ EventKinds = <<"send">>
                    /\ exch.steps = <<"send", "transport">>
                [] exch.pc = "done" /\ exch.outcome.err # "TransportError" ->
                    /\ EventKinds = <<"send", "receive">>
                    /\ exch.steps = <<"send", "transport", "receive", "status">>
                [] OTHER -> FALSE

\* An exchange the device answers with an error status has emitted its
\* receive event.
C30_Witness ==
    /\ exch.op = "exchange"
    /\ exch.pc = "done"
    /\ exch.outcome.err = "DeviceProtocolError"
    /\ EventKinds = <<"send", "receive">>
    /\ exch.steps = <<"send", "transport", "receive", "status">>

(***************************************************************************)
(* LedgerDevice.retrieveTransaction: the TX_DUMP loop.                     *)
(***************************************************************************)
\* Bodies: the response bodies a device may return to one TX_DUMP.
DumpBodies == SeqsUpTo(ByteSamples, MaxBody)

\* while (response.length < config.maximumLedgerTransactionSize)
WithinLimitInclusive(length) == length <= MaximumLedgerTransactionSize

WithinLimit(length) == length < MaximumLedgerTransactionSize

\* writer.uint16_t(response.length, true): the data of the TX_DUMP request.
DumpRequest(response) == U16be(Len(response))

IdleRetrieve ==
    [pc |-> "idle", name |-> "retrieveTransaction",
     response |-> <<>>,   \* the Writer the bodies are written to
     requests |-> <<>>,   \* the data of the TX_DUMP requests made, in order
     bodies |-> <<>>,     \* the bodies received, in order
     parsed |-> <<>>,     \* the bytes given to Transaction.from
     outcome |-> "none"]

\* The loop test and what follows it: the next TX_DUMP, or Transaction.from
\* (which yields a transaction or throws).
RetrieveLoop(f, parses) ==
    IF WithinLimit(Len(f.response))
    THEN [f EXCEPT !.pc = "dump", !.requests = Append(@, DumpRequest(f.response))]
    ELSE [f EXCEPT !.pc = "done", !.parsed = f.response,
                   !.outcome = IF parses THEN "ok" ELSE "ParseError"]

\* if (result.unreadBytes === 0) break; response.write(result.unreadBuffer)
RetrieveBody(f, body, parses) ==
    LET got == [f EXCEPT !.bodies = Append(@, body)]
    IN  IF Len(body) = 0
        THEN [got EXCEPT !.pc = "done", !.parsed = f.response,
                         !.outcome = IF parses THEN "ok" ELSE "ParseError"]
        ELSE RetrieveLoop([got EXCEPT !.response = @ \o body], parses)

InitRetrieve ==
    /\ fn = IdleRetrieve
    /\ exch = NoExchange
    /\ NoCalls

\* A caller invokes retrieveTransaction().
CallRetrieveTransaction ==
    /\ fn.name = "retrieveTransaction"
    /\ fn.pc = "idle"
    /\ \E parses \in BOOLEAN : fn' = RetrieveLoop(fn, parses)
    /\ UNCHANGED <<exch, todo, call, helper>>

\* The awaited exchange settles: with a body, or with an error.
OnDumpResult ==
    /\ fn.name = "retrieveTransaction"
    /\ fn.pc = "dump"
    /\ \/ \E body \in DumpBodies, parses \in BOOLEAN :
            fn' = RetrieveBody(fn, body, parses)
       \/ fn' = [fn EXCEPT !.pc = "done", !.outcome = "ExchangeError"]
    /\ UNCHANGED <<exch, todo, call, helper>>

NextRetrieve == CallRetrieveTransaction \/ OnDumpResult

SpecRetrieve == InitRetrieve /\ [][NextRetrieve]_vars

\* Every exchange the loop awaits settles.
SpecRetrieveFair == SpecRetrieve /\ WF_vars(NextRetrieve)

RECURSIVE Concat(_)
Concat(seqs) == IF seqs = <<>> THEN <<>> ELSE Head(seqs) \o Concat(Tail(seqs))

\* The number of bytes of the first n bodies.
Accumulated(n) == Len(Concat(SubSeq(fn.bodies, 1, n)))

\* Request i asked for the offset that is the number of bytes received from
\* the requests before it, and was made with fewer than
\* maximumLedgerTransactionSize bytes accumulated after a non-empty body.
RequestsInStep ==
    \A i \in 1..Len(fn.requests) :
        /\ fn.requests[i][1] * 256 + fn.requests[i][2] = Accumulated(i - 1)
        /\ Accumulated(i - 1) < MaximumLedgerTransactionSize
        /\ i > 1 => Len(fn.bodies[i - 1]) > 0

\* A retrieval that reached Transaction.from stopped on an empty body or at
\* the limit, and parsed the bodies in request order.
StoppedAndParsed ==
    (fn.pc = "done" /\ fn.outcome # "ExchangeError")
        => /\ Len(fn.bodies) = Len(fn.requests)
           /\ \/ fn.bodies # <<>> /\ Len(Last(fn.bodies)) = 0
              \/ Accumulated(Len(fn.bodies)) >= MaximumLedgerTransactionSize
           /\ fn.parsed = Concat(fn.bodies)

\* C29: retrieveTransaction always terminates: each TX_DUMP asks for the
\* offset equal to the bytes accumulated so far, the loop stops as soon as a
\* body is empty or the accumulated length reaches
\* maximumLedgerTransactionSize (so also when no body is ever empty), and the
\* bytes parsed are the concatenation of the bodies in request order.
C29_RetrieveTerminates ==
    /\ [](fn.name = "retrieveTransaction" => RequestsInStep /\ StoppedAndParsed)
    /\ <>(fn.pc = "done")

\* A retrieval that never saw an empty body and stopped at the limit after
\* two requests.
C29_Witness ==
    /\ fn.name = "retrieveTransaction"
    /\ fn.pc = "done"
    /\ fn.outcome = "ok"
    /\ Len(fn.requests) = 2
    /\ fn.requests[2] = <<0, 1>>
    /\ \A i \in 1..Len(fn.bodies) : Len(fn.bodies[i]) > 0
    /\ fn.parsed = fn.bodies[1] \o fn.bodies[2]

(***************************************************************************)
(* LedgerDevice.generateRingSignatures: the request and what is made of    *)
(* the response.                                                           *)
(***************************************************************************)
\* result.hex(64): a signature is 64 bytes of the body.
SignatureBytes == 64

\* The body lengths a device may answer with: whole signatures, and one
\* byte more or less.
RingBodyLengths == {SignatureBytes * k + d : k \in 0..(MaxList + 1), d \in {0, 1, 63}}

\* while (result.unreadBytes > 0) signatures.push(result.hex(64))
SignaturesOf(body) ==
    [i \in 1..(Len(body) \div SignatureBytes) |->
        SubSeq(body, SignatureBytes * (i - 1) + 1, SignatureBytes * i)]

\* The variant without the comparison of the signature count.
RingSignaturesResultAnyCount(x) ==
    IF x.outcome.kind # "ok" THEN x
    ELSE IF Len(x.outcome.body) % SignatureBytes # 0 THEN Thrown(x, "NotSignatures", 0)
    ELSE [x EXCEPT !.outcome =
            [kind |-> "ok", err |-> "none", code |-> 0, body |-> x.outcome.body,
             signatures |-> SignaturesOf(x.outcome.body)]]

\* generateRingSignatures from the result of its exchange on.
RingSignaturesResult(x) ==
    IF x.outcome.kind # "ok" THEN x
    ELSE IF Len(x.outcome.body) % SignatureBytes # 0 THEN Thrown(x, "NotSignatures", 0)
    ELSE IF Len(SignaturesOf(x.outcome.body)) # Len(x.args.list)
        THEN Thrown(x, "SignatureCount", 0)
    ELSE [x EXCEPT !.outcome =
            [kind |-> "ok", err |-> "none", code |-> 0, body |-> x.outcome.body,
             signatures |-> SignaturesOf(x.outcome.body)]]

RingSignaturesArgs ==
    UNION {Variants(WellFormed("generateRingSignatures", 3, n, 0, 0, {"index", "realIndex"})) :
            n \in 0..MaxList}

InitRingSignatures ==
    /\ \E a \in RingSignaturesArgs : exch = [IdleExchange EXCEPT !.op = a.op, !.args = a]
    /\ fn = NoApplication
    /\ NoCalls

\* The transport answers the GENERATE_RING_SIGNATURES request, or fails.
OnRingSignaturesResult ==
    /\ exch.pc = "sent"
    /\ exch.op = "generateRingSignatures"
    /\ \/ \E n \in RingBodyLengths, sw \in {U16be(OK), <<105, 144>>} :
            exch' = RingSignaturesResult(ExchangeReceive(exch, DataOf(n) \o sw))
       \/ exch' = Thrown(exch, "TransportError", 0)
    /\ UNCHANGED <<fn, todo, call, helper>>

NextRingSignatures == CallOperation \/ OnRingSignaturesResult

SpecRingSignatures == InitRingSignatures /\ [][NextRingSignatures]_vars

\* The body of the response the transport returned, and its status word.
ResponseBody == SubSeq(exch.response, 1, Len(exch.response) - 2)
ResponseStatus ==
    exch.response[Len(exch.response) - 1] * 256 + exch.response[Len(exch.response)]

\* C31: generateRingSignatures with an empty inputKeys list fails without
\* device I/O; on an OK response it succeeds only if the body length is a
\* multiple of 64 and the number of 64-byte signatures equals
\* inputKeys.length, returning those signatures; otherwise it fails and
\* returns no signatures.
C31_RingSignatures ==
    (Invoked /\ exch.op = "generateRingSignatures")
        => /\ Len(exch.args.list) = 0 => FailedBeforeSend
           /\ (exch.pc = "done" /\ exch.response # <<>> /\ ResponseStatus = 36864)
                => IF /\ Len(ResponseBody) % 64 = 0
                      /\ Len(ResponseBody) \div 64 = Len(exch.args.list)
                   THEN /\ exch.outcome.kind = "ok"
                        /\ Len(exch.outcome.signatures) = Len(exch.args.list)
                        /\ \A i \in 1..Len(exch.outcome.signatures) :
                            /\ Len(exch.outcome.signatures[i]) = 64
                            /\ \A j \in 1..64 :
                                exch.outcome.signatures[i][j]
                                    = ResponseBody[64 * (i - 1) + j]
                   ELSE /\ exch.outcome.kind = "error"
                        /\ "signatures" \notin DOMAIN exch.outcome
           /\ (exch.pc = "done" /\ exch.outcome.kind = "ok")
                => exch.response # <<>> /\ ResponseStatus = 36864

\* Two signatures come back for one input key: the call fails.
C31_Witness ==
    /\ Invoked
    /\ exch.op = "generateRingSignatures"
    /\ exch.pc = "done"
    /\ Len(exch.args.list) = 1
    /\ exch.response # <<>>
    /\ ResponseStatus = 36864
    /\ Len(ResponseBody) = 128
    /\ exch.outcome.kind = "error"

(***************************************************************************)
(* Properties of isOurTransactionOutput and of the ready flag.             *)
(***************************************************************************)
\* Call c is an isOurTransactionOutput call, made directly or by a scan.
IsOurCall(c) == todo[c].op \in {"isOurTransactionOutput", "scanChild"}

Returned(c) == IsOurCall(c) /\ call[c].pc = "done"

\* C32 as stated: isOurTransactionOutput succeeds exactly when the key
\* derived for the output equals output.key.
C32_AsStated ==
    \A c \in Calls :
        (Returned(c) /\ ~todo[c].generatePartial)
            => (call[c].result.kind = "ok" <=> IsOurs(todo[c].out))

\* C32: isOurTransactionOutput succeeds only when the key derived from the
\* transaction public key, the cached private view key, output.index and the
\* cached public spend key equals output.key, and then provided the key fetch
\* and the key-image request succeed; on success the output carries the
\* derived publicEphemeral, the transaction keys {txPub, derivation,
\* output.index}, the all-zero privateEphemeral and the device's key image;
\* when the keys differ it fails, with 'Not our output' once both derivations
\* were made, and sends no key-image request.
C32_IsOurOutput ==
    \A c \in Calls :
        Returned(c) =>
            /\ call[c].result.kind = "ok" =>
                /\ IsOurs(todo[c].out)
                /\ call[c].out.index = todo[c].out.index
                /\ call[c].out.key = todo[c].out.key
                /\ call[c].out.input.publicEphemeral = todo[c].out.key
                /\ call[c].out.input.transactionKeys =
                        [publicKey |-> "T",
                         derivedKey |-> <<"D", "T", "v">>,
                         outputIndex |-> todo[c].out.index]
                /\ call[c].out.input.privateEphemeral = "0"
                /\ call[c].out.keyImage = "ki"
                /\ Count(call[c].log, "GENERATE_KEY_IMAGE") = 1
            /\ ~IsOurs(todo[c].out) =>
                /\ call[c].result.kind = "error"
                /\ Count(call[c].log, "GENERATE_KEY_IMAGE") = 0
                /\ call[c].derivation # NoDerived /\ call[c].spendRead # NoKey
                        => call[c].result.err = "NotOurOutput"
            /\ call[c].result.err = "NotOurOutput" => ~IsOurs(todo[c].out)
            /\ (IsOurs(todo[c].out) /\ call[c].result.kind = "error")
                => call[c].result.err \in
                    {"DeviceProtocolError", "TransportError", "CryptoError", "NotSupported"}

\* One call has returned our output completed, another has failed on an
\* output that is not ours.
C32_Witness ==
    \E c, d \in Calls :
        /\ Returned(c) /\ call[c].result.kind = "ok"
        /\ call[c].out.input.privateEphemeral = "0"
        /\ call[c].out.keyImage = "ki"
        /\ Returned(d) /\ call[d].result.err = "NotOurOutput"
        /\ "GENERATE_KEY_IMAGE" \notin Range(call[d].log)

\* get address (): throws unless ready, else this.m_address.
AddressGetterUnguarded == [kind |-> "ok", err |-> "none", address |-> m_address]

AddressGetter ==
    IF ~m_fetched
    THEN [kind |-> "error", err |-> "NotReady", address |-> 0]
    ELSE [kind |-> "ok", err |-> "none", address |-> m_address]

\* A caller reads the address property; the model keeps the value of ready at
\* that moment beside the outcome.
GetAddress ==
    /\ fn' = [pc |-> "done", name |-> "address", ready |-> m_fetched,
              result |-> AddressGetter]
    /\ UNCHANGED <<exch, todo, call, helper>>

NextReady == NextCalls \/ GetAddress

\* The callers of SpecCalls, and reads of the address between their steps.
SpecReady == InitCalls /\ [][NextReady]_vars

\* Call c has had its PUBLIC_KEYS and VIEW_SECRET_KEY requests answered
\* successfully and has derived the address.
Fetched(c) ==
    /\ InHelperCall(c)
    /\ Count(call[c].log, "PUBLIC_KEYS") = 1
    /\ Count(call[c].log, "VIEW_SECRET_KEY") = 1
    /\ call[c].pc \notin {"fk_pk", "fk_vk", "fk_setpriv", "fk_addr"}
    /\ ~(/\ call[c].pc = "done"
          /\ DeviceFailed(c)
          /\ Last(call[c].log) \in {"PUBLIC_KEYS", "VIEW_SECRET_KEY"})

\* Call c receives a refusal of one of the two requests of its fetchKeys.
FetchFails(c) ==
    /\ call[c].pc \in {"fk_pk", "fk_vk"}
    /\ call'[c].pc = "done"
    /\ call'[c].result.kind = "error"

\* C33: ready is false after construction; it becomes true only in the step
\* in which a fetchKeys whose PUBLIC_KEYS and VIEW_SECRET_KEY requests both
\* succeeded stores the address it derived; a fetchKeys that fails leaves it
\* as it is; once true it never returns to false; and the address getter
\* fails whenever ready is false.
C33_ReadyFlag ==
    /\ ~m_fetched
    /\ [](m_fetched => m_address # 0 /\ Fetched(m_address))
    /\ [][(~m_fetched /\ m_fetched')
            => \E c \in Calls :
                /\ call[c].pc = "fk_addr"
                /\ Count(call[c].log, "PUBLIC_KEYS") = 1
                /\ Count(call[c].log, "VIEW_SECRET_KEY") = 1
                /\ m_address' = c]_vars
    /\ [][\A c \in Calls : FetchFails(c) => m_fetched' = m_fetched]_vars
    /\ [][m_fetched => m_fetched']_vars
    /\ [](fn.pc = "done" =>
            /\ ~fn.ready => fn.result.kind = "error"
            /\ fn.ready => fn.result.kind = "ok" /\ fn.result.address # 0)

\* The address was read and refused while the helper was not ready, one
\* fetchKeys has failed, and another has made the helper ready since.
C33_Witness ==
    /\ fn.pc = "done"
    /\ ~fn.ready
    /\ fn.result.kind = "error"
    /\ m_fetched
    /\ \E c \in Calls :
        /\ call[c].pc = "done"
        /\ DeviceFailed(c)
        /\ Last(call[c].log) \in {"PUBLIC_KEYS", "VIEW_SECRET_KEY"}

(***************************************************************************)
(* createTransaction and the random outputs it is given.                   *)
(***************************************************************************)
\* One caller builds a transaction from one or two inputs of one unit, with
\* a mixin of 0, 1 or 3, one output of one unit, and random outputs of any
\* globalIndexes: one set per input or one set short, the sets alike or the
\* last of them an entry shorter.
MixinArgs ==
    {[CreateTransaction(Repeat(1, n), [i \in 1..n |-> i], <<1>>, <<"A">>,
                        mixin, "none", FALSE, n - missing, Len(indexes))
        EXCEPT !.globalIndexes = [i \in 1..n |-> (first + i - 1) % (MaxGlobalIndex + 1)],
               !.pools = [i \in 1..(n - missing) |->
                            IF shorter /\ i = n - missing /\ indexes # <<>>
                            THEN PoolOf(SubSeq(indexes, 1, Len(indexes) - 1))
                            ELSE PoolOf(indexes)]] :
        n \in 1..MaxInputs,
        first \in 0..MaxGlobalIndex,
        indexes \in SeqsUpTo(0..MaxGlobalIndex, MaxPool),
        missing \in {0, 1},
        shorter \in BOOLEAN,
        mixin \in {0, 1, RingSize - 1}}

InitMixin ==
    /\ \E a \in MixinArgs : todo = [c \in Calls |-> IF c = 1 THEN a ELSE NoArgs]
    /\ call = [c \in Calls |-> IdleCall]
    /\ InitHelper
    /\ OnlyCalls
    /\ scan = NoScan

SpecMixin == InitMixin /\ [][Next]_vars

\* The entries of set i whose globalIndex differs from that of input i.
Decoys(a, i) ==
    {p \in 1..Len(a.pools[i]) : a.pools[i][p].globalIndex # a.globalIndexes[i]}

\* The random outputs do not allow every input a ring of mixin decoys.
CannotMix(a) ==
    \/ Len(a.pools) # Len(a.inputs)
    \/ \E i \in 1..Len(a.pools) : Len(a.pools[i]) < a.mixin
    \/ \E i \in 1..Len(a.inputs) : Cardinality(Decoys(a, i)) < a.mixin

\* No member of a ring but the real output has the real output's key or
\* globalIndex.
NoOwnDecoy(input) ==
    LET at == input.realOutputIndex + 1
    IN  /\ at \in 1..Len(input.outputs)
        /\ input.outputs[at].key = "real"
        /\ \A j \in 1..Len(input.outputs) :
            j # at => /\ input.outputs[j].key # "real"
                      /\ input.outputs[j].index # input.outputs[at].index

\* C34: with mixin > 0, createTransaction fails before any device I/O when
\* the number of random-output sets differs from the number of inputs, when
\* a set has fewer than mixin entries, or when for some input fewer than
\* mixin entries of its set have a globalIndex other than the real output's;
\* and in the rings of a build that goes on no real output is its own decoy.
C34_RandomOutputs ==
    \A c \in Calls :
        (IsBuild(c) /\ call[c].pc # "idle" /\ todo[c].mixin > 0)
            => /\ CannotMix(todo[c]) =>
                    /\ call[c].pc = "done"
                    /\ call[c].result.kind = "error"
                    /\ call[c].log = <<>>
               /\ \A i \in 1..Len(call[c].transactionInputs) :
                    /\ NoOwnDecoy(call[c].transactionInputs[i])
                    /\ Len(call[c].transactionInputs[i].outputs) = todo[c].mixin + 1

\* A build whose sets are as many as its inputs and long enough, but hold
\* too few entries other than the real output, has failed without I/O.
C34_Witness ==
    \E c \in Calls :
        /\ IsBuild(c)
        /\ todo[c].mixin = 3
        /\ Len(todo[c].pools) = Len(todo[c].inputs)
        /\ \A i \in 1..Len(todo[c].pools) : Len(todo[c].pools[i]) >= 3
        /\ \E i \in 1..Len(todo[c].inputs) : Cardinality(Decoys(todo[c], i)) < 3
        /\ call[c].pc = "done"
        /\ call[c].result.err = "CannotMix"
        /\ call[c].log = <<>>

\* The commands of a build up to the loading of its first input.
UpToInputLoad ==
    <<"RANDOM_KEY_PAIR", "TX_START", "TX_STATE", "TX_START_INPUT_LOAD", "TX_STATE">>

\* C35: createTransaction with at least one input and a mixin other than 3
\* never succeeds and never sends TX_LOAD_INPUT: a build that has come to
\* load its first input, after TX_START and TX_START_INPUT_LOAD, fails there
\* and sends TX_RESET next.
C35_MixinOtherThanThree ==
    \A c \in Calls :
        (IsBuild(c) /\ todo[c].mixin # 3 /\ Len(todo[c].inputs) >= 1)
            => /\ call[c].result.kind # "ok"
               /\ Count(call[c].log, "TX_LOAD_INPUT") = 0
               /\ Len(call[c].log) > Len(UpToInputLoad)
                    => call[c].log = Append(UpToInputLoad, "TX_RESET")
               /\ (call[c].pc = "done" /\ Count(call[c].log, "TX_START") = 1)
                    => Last(call[c].log) = "TX_RESET"

\* A build with mixin 1 was refused at its first input and has reset the
\* device.
C35_Witness ==
    \E c \in Calls :
        /\ IsBuild(c)
        /\ todo[c].mixin = 1
        /\ call[c].pc = "done"
        /\ call[c].log = Append(UpToInputLoad, "TX_RESET")
        /\ call[c].result.err = "InvalidArgument"

(***************************************************************************)
(* createTransaction and the payment id of TX_START.                       *)
(***************************************************************************)
\* One caller builds a transaction from one input to one or two plain or
\* integrated addresses, with no payment id, an empty one, a payment id or a
\* malformed one.
PaymentIdArgs ==
    {CreateTransaction(<<MaximumOutputAmount>>, <<1>>, [i \in 1..n |-> 1], destinations,
                       RingSize - 1, paymentId, FALSE, 1, RingSize - 1) :
        n \in 1..MaxOutputs,
        destinations \in SeqsUpTo(Destinations, MaxOutputs) \ {<<>>},
        paymentId \in {"none", "", "malformed"} \cup PaymentIds}

InitPaymentId ==
    /\ \E a \in {b \in PaymentIdArgs : Len(b.outputs) = Len(b.destinations)} :
        todo = [c \in Calls |-> IF c = 1 THEN a ELSE NoArgs]
    /\ call = [c \in Calls |-> IdleCall]
    /\ InitHelper
    /\ OnlyCalls
    /\ scan = NoScan

SpecPaymentId == InitPaymentId /\ [][Next]_vars

\* C36: TX_START carries a payment id (hasPid = 1) exactly when the caller
\* passed a non-empty paymentId, and then that payment id; a payment id
\* embedded in the destinations is not sent when no paymentId was passed.
C36_PaymentIdFlag ==
    \A c \in Calls :
        IsBuild(c) =>
            IF Count(call[c].log, "TX_START") = 0 THEN call[c].start = <<>>
            ELSE /\ Len(call[c].start) = 1
                 /\ call[c].start[1].hasPid \in {0, 1}
                 /\ call[c].start[1].hasPid = 1
                        <=> todo[c].paymentId \notin {"none", ""}
                 /\ call[c].start[1].hasPid = 1
                        => call[c].start[1].payment_id = todo[c].paymentId
                 /\ call[c].start[1].hasPid = 0
                        => call[c].start[1].payment_id = "none"

\* A build to an integrated address, without a paymentId argument, has sent
\* TX_START without a payment id.
C36_Witness ==
    \E c \in Calls :
        /\ IsBuild(c)
        /\ Count(call[c].log, "TX_START") = 1
        /\ todo[c].paymentId \in {"none", ""}
        /\ IntegratedPaymentId(todo[c]) # "none"
        /\ call[c].start[1].hasPid = 0

\* The cleanup TX_RESET of build c was refused, or the transport failed
\* during it.
CleanupFailed(c) == IsBuild(c) /\ call[c].resetReply \in {"refused", "transport"}

\* C37: when the cleanup TX_RESET is refused or the transport fails during
\* it, createTransaction fails with that cleanup error: a build that had
\* otherwise succeeded returns no transaction, and a build that had already
\* failed surfaces the cleanup error, not the original one.
C37_CleanupError ==
    \A c \in Calls :
        CleanupFailed(c) =>
            /\ call[c].pc = "done"
            /\ call[c].result.kind = "error"
            /\ call[c].result.err =
                    (IF call[c].resetReply = "refused"
                     THEN "DeviceProtocolError" ELSE "TransportError")
            /\ Last(call[c].log) = "TX_RESET"

\* A build that had failed for a reason of its own, not a device or
\* transport error, has ended with the transport error of its cleanup.
C37_Witness ==
    \E c \in Calls :
        /\ CleanupFailed(c)
        /\ call[c].failure \notin {"none", "DeviceProtocolError", "TransportError"}
        /\ call[c].result.err = "TransportError"

\* C38: when isOurTransactionOutput fails, for whatever reason, the output
\* object passed in is as it was: it has gained neither an input record nor
\* a key image.
C38_AsStated ==
    \A c \in Calls :
        (Returned(c) /\ call[c].result.kind = "error")
            => /\ call[c].out.input = NoInput
               /\ call[c].out.keyImage = NoKey

\* ---------------------------------------------------------------------------
\* The configuration of LedgerNote instances.
\*
\* LedgerNote.ts holds `const Config = require('../config.json')` and every
\* instance's field `config` is initialised with require('../config.json');
\* LedgerDevice.js holds `const config = require('../config.json')`.  require
\* returns the one cached module object for a path, so Config, every
\* instance's this.config and the Device Client's config are one object, kept
\* here in fn.Config.  Of the recognized keys the model keeps two.
\*
\* Bounds: up to MaxInstances instances, configured values of
\* 1..MaxConfigValue, up to MaxLoads amount checks by the Device Client.
MaxInstances == 2
MaxConfigValue == 2
MaxLoads == 1

RecognizedKeys == {"maximumOutputAmount", "feePerByte"}

GivenKeys == RecognizedKeys \cup {"unrecognizedKey"}

\* The content of config.json as loaded.
ConfigJson == [maximumOutputAmount |-> MaximumOutputAmount, feePerByte |-> 1]

\* The configurations a caller passes to the constructor: any of the keys.
GivenConfigs == UNION {[S -> 1..MaxConfigValue] : S \in SUBSET GivenKeys}

\* Object.keys(config).forEach(key => switch (key) { case k: this.config[k] =
\* config[k] }): a recognized key is written into this.config, any other key
\* falls through the switch.
ApplyConfig(thisConfig, config) ==
    [k \in DOMAIN thisConfig |->
        IF k \in DOMAIN config THEN config[k] ELSE thisConfig[k]]

\* this.config.key || Config.key, as an instance reads a value: this.config
\* and Config are the same object.
ConfigValue(key) ==
    IF fn.Config[key] # 0 THEN fn.Config[key] ELSE fn.Config[key]

\* amount < 0 || amount > config.maximumOutputAmount in loadTransactionOutput
AmountOutOfRange(amount, config) ==
    amount < 0 \/ amount > config.maximumOutputAmount

InitConfig ==
    /\ fn = [pc |-> "idle", name |-> "config", Config |-> ConfigJson,
             instances |-> <<>>, loads |-> <<>>]
    /\ exch = NoExchange
    /\ NoCalls

\* new LedgerNote(transport, config?): given is <<>> when no config is passed
\* and <<config>> otherwise.
NewLedgerNote ==
    /\ fn.name = "config"
    /\ Len(fn.instances) < MaxInstances
    /\ \E given \in {<<>>} \cup {<<config>> : config \in GivenConfigs} :
        fn' = [fn EXCEPT
                !.pc = "done",
                !.instances = Append(@, [given |-> given]),
                !.Config = IF given = <<>> THEN @ ELSE ApplyConfig(@, given[1])]
    /\ UNCHANGED <<exch, todo, call, helper>>

\* The Device Client checks the amount of an output it is asked to load.
CheckLoadTransactionOutput ==
    /\ fn.name = "config"
    /\ Len(fn.loads) < MaxLoads
    /\ \E amount \in 0..(MaxConfigValue + 1) :
        fn' = [fn EXCEPT
                !.loads = Append(@,
                    [amount |-> amount,
                     refused |-> AmountOutOfRange(amount, fn.Config)])]
    /\ UNCHANGED <<exch, todo, call, helper>>

NextConfig == NewLedgerNote \/ CheckLoadTransactionOutput

SpecConfig == InitConfig /\ [][NextConfig]_vars

\* C39: a configuration passed to one LedgerNote constructor affects only that
\* instance: unrecognized keys are ignored, and the values of the recognized
\* keys used by every other instance (one constructed before, or one
\* constructed later without a configuration) and by the Device Client's
\* amount check are those of config.json.
C39_AsStated ==
    fn.name = "config" =>
        /\ DOMAIN fn.Config = RecognizedKeys
        /\ \A i \in 1..Len(fn.instances) : \A key \in RecognizedKeys :
            ConfigValue(key) =
                IF fn.instances[i].given # <<>>
                      /\ key \in DOMAIN fn.instances[i].given[1]
                THEN fn.instances[i].given[1][key]
                ELSE ConfigJson[key]
        /\ \A l \in 1..Len(fn.loads) :
            fn.loads[l].refused = AmountOutOfRange(fn.loads[l].amount, ConfigJson)

====
